---- MODULE Spec2Model ----
(***************************************************************************)
(* Campaign performance monitoring core of the orchestrator service        *)
(* (services/campaign_performance_service.py): the in-memory registry, the *)
(* derived-metric computation, the alert evaluation and the publish calls  *)
(* each operation makes, with every await on the transport as a            *)
(* suspension point at which other tasks may run.                          *)
(*                                                                         *)
(* Numbers.  impressions, clicks, conversions, spend, revenue and budget   *)
(* limits are integers here (every input used is integral); the derived    *)
(* values (ctr, cpc, cpm, roas, percentage_exceeded) and the thresholds    *)
(* are exact rationals <<n, d>> in lowest terms with d > 0.  The inputs    *)
(* are chosen so that every comparison the source makes on doubles has the *)
(* outcome of the same comparison on these rationals.                      *)
(*                                                                         *)
(* Optional values (Optional[float], dict.get) are sequences: <<>> is      *)
(* None and <<v>> is the value v.  A dict is a function whose domain is    *)
(* the set of keys present.  timestamp, date and the alert's uuid are      *)
(* wall-clock or random values that no operation reads; they are left out. *)
(***************************************************************************)
EXTENDS Integers, Sequences, FiniteSets, TLC

----------------------------------------------------------------------------
(* Bounds of the model *)

MaxTicks == 1          \* refreshes the monitoring loop may begin
MaxCalls == 3          \* calls the concurrent API callers may begin (SpecApi)
MaxLoopCalls == 2      \* API calls that may interleave with the loop (Spec)
MaxOrderCalls == 3     \* updates the sequential caller may submit (SpecOrder)
MaxParCalls == 2       \* updates the concurrent callers may begin (SpecPar)
MaxLifeTicks == 2      \* refreshes the monitoring loop may begin (SpecLife)
MaxRecoverCalls == 3   \* updates the sequential caller may submit (SpecRecover)
MaxReads == 3          \* reads between two writes of the registry (SpecRead)
MaxStopTicks == 1      \* refreshes the monitoring loop may begin (SpecLifeFair)

----------------------------------------------------------------------------
(* Exact rational arithmetic for the float expressions of the source *)

RECURSIVE GCD(_, _)
GCD(a, b) == IF b = 0 THEN a ELSE GCD(b, a % b)

Abs(x) == IF x < 0 THEN -x ELSE x

\* n / d as a fraction in lowest terms, d # 0
Rat(n, d) ==
    LET g == GCD(Abs(n), Abs(d))
        s == IF d < 0 THEN -1 ELSE 1
    IN  <<(s * n) \div g, (s * d) \div g>>

RZero == <<0, 1>>
RInt(k) == <<k, 1>>
RMulInt(r, k) == Rat(r[1] * k, r[2])
RLt(a, b) == a[1] * b[2] < b[1] * a[2]
RLe(a, b) == a[1] * b[2] <= b[1] * a[2]
RGt(a, b) == RLt(b, a)
RGe(a, b) == RLe(b, a)

None == << >>
Some(v) == <<v>>
IsNone(o) == Len(o) = 0
\* variant of TruthyNum: the test "is not None", which the value 0 passes
TruthyNumNotNone(o) == Len(o) > 0
\* Python truthiness of an Optional[float] whose value is an integer here
TruthyNum(o) == Len(o) > 0 /\ o[1] # 0
\* Python truthiness of an Optional[float] whose value is a rational
TruthyRat(o) == Len(o) > 0 /\ o[1][1] # 0

\* dict.get(key, default)
DictGet(d, k, default) == IF k \in DOMAIN d THEN d[k] ELSE default

\* d[k] = v on a dict d
DictSet(d, k, v) == [x \in (DOMAIN d) \cup {k} |-> IF x = k THEN v ELSE d[x]]

EmptyDict == [x \in {} |-> 0]

----------------------------------------------------------------------------
(* Input domains *)

\* tasks: the monitoring loop and the coroutines of the API callers
MonitorTask == 0
Callers == {1, 2}
Tasks == {MonitorTask} \cup Callers

ProjectIds == {"p1", "p2"}
CampaignIds == {"c1", "c2"}

\* (campaign_name, platform) pairs given to register_campaign
CampaignInfos == {<<"Spring", "google_ads">>, <<"Autumn", "meta">>}

\* budget_limit arguments of register_campaign: absent, 0.0, 150.0, 1000.0
BudgetInputs == {None, Some(0), Some(150), Some(1000)}

\* metrics_data dicts given to update_campaign_metrics by the API callers
MetricsInputs ==
    { [impressions |-> 1000, clicks |-> 60, spend |-> 100, revenue |-> 600],
      [impressions |-> 2000, clicks |-> 80, spend |-> 200, revenue |-> 800],
      [impressions |-> 1000, clicks |-> 50, spend |-> 100, conversions |-> 5,
       revenue |-> 250],
      [spend |-> 1200],
      [revenue |-> 200],
      [revenue |-> 1000],
      [clicks |-> 10],
      [ctr |-> RInt(9), roas |-> RInt(9)],
      EmptyDict }

----------------------------------------------------------------------------
(* State *)

VARIABLES
    active_campaigns,        \* Dict[str, CampaignMetrics]
    active_campaigns_keys,   \* the insertion order of active_campaigns' keys
    budget_limits,           \* Dict[str, float]
    performance_thresholds,  \* Dict[str, float]
    calls,                   \* per task: the frame of its register/update call
    monitoring,              \* _monitoring_task and the loop's position
    api_calls,               \* bookkeeping: calls the concurrent callers began
    history                  \* bookkeeping: threshold events of returned calls

vars == <<active_campaigns, active_campaigns_keys, budget_limits,
          performance_thresholds, calls, monitoring, api_calls, history>>

\* the bookkeeping variables are no state of the service; no operation reads them
bookkeeping == <<api_calls, history>>

\* models.CampaignMetrics with its field defaults
CampaignMetrics(campaign_id, campaign_name, platform) ==
    [campaign_id |-> campaign_id, campaign_name |-> campaign_name,
     platform |-> platform,
     impressions |-> 0, clicks |-> 0, spend |-> 0, conversions |-> 0,
     revenue |-> 0,
     ctr |-> RZero, cpc |-> RZero, cpm |-> RZero, roas |-> RZero]

----------------------------------------------------------------------------
(* Derived metrics, as update_campaign_metrics computes them *)

CalcCtr(m) ==
    IF m.impressions > 0 THEN RMulInt(Rat(m.clicks, m.impressions), 100)
    ELSE RZero

CalcCpc(m) ==
    IF m.clicks > 0 THEN Rat(m.spend, m.clicks) ELSE RZero

\* variant of CalcCpm: cost per hundred impressions
CalcCpmPerHundred(m) ==
    IF m.impressions > 0 THEN RMulInt(Rat(m.spend, m.impressions), 100)
    ELSE RZero

CalcCpm(m) ==
    IF m.impressions > 0 THEN RMulInt(Rat(m.spend, m.impressions), 1000)
    ELSE RZero

CalcRoas(m) ==
    IF m.spend > 0 THEN Rat(m.revenue, m.spend) ELSE RZero

\* variant of MergedMetrics: a counter absent from metrics_data becomes 0
MergedMetricsReset(cur, metrics_data) ==
    [CampaignMetrics(cur.campaign_id, cur.campaign_name, cur.platform)
        EXCEPT !.impressions = DictGet(metrics_data, "impressions", 0),
               !.clicks = DictGet(metrics_data, "clicks", 0),
               !.spend = DictGet(metrics_data, "spend", 0),
               !.conversions = DictGet(metrics_data, "conversions", 0),
               !.revenue = DictGet(metrics_data, "revenue", 0)]

\* variant of MergedMetrics: campaign_name and platform are not copied from
\* the stored entry
MergedMetricsUnnamed(cur, metrics_data) ==
    [CampaignMetrics(cur.campaign_id, "", "")
        EXCEPT !.impressions = DictGet(metrics_data, "impressions", cur.impressions),
               !.clicks = DictGet(metrics_data, "clicks", cur.clicks),
               !.spend = DictGet(metrics_data, "spend", cur.spend),
               !.conversions = DictGet(metrics_data, "conversions", cur.conversions),
               !.revenue = DictGet(metrics_data, "revenue", cur.revenue)]

\* the CampaignMetrics built from the stored entry and metrics_data
MergedMetrics(cur, metrics_data) ==
    [CampaignMetrics(cur.campaign_id, cur.campaign_name, cur.platform)
        EXCEPT !.impressions = DictGet(metrics_data, "impressions", cur.impressions),
               !.clicks = DictGet(metrics_data, "clicks", cur.clicks),
               !.spend = DictGet(metrics_data, "spend", cur.spend),
               !.conversions = DictGet(metrics_data, "conversions", cur.conversions),
               !.revenue = DictGet(metrics_data, "revenue", cur.revenue)]

\* variant of UpdatedMetrics: the derived fields are those of the old counters
UpdatedMetricsStale(cur, metrics_data) ==
    LET m == MergedMetrics(cur, metrics_data)
    IN  [m EXCEPT !.ctr = CalcCtr(cur), !.cpc = CalcCpc(cur),
                  !.cpm = CalcCpm(cur), !.roas = CalcRoas(cur)]

UpdatedMetrics(cur, metrics_data) ==
    LET m == MergedMetrics(cur, metrics_data)
    IN  [m EXCEPT !.ctr = CalcCtr(m), !.cpc = CalcCpc(m),
                  !.cpm = CalcCpm(m), !.roas = CalcRoas(m)]

----------------------------------------------------------------------------
(* Events handed to the transport *)

\* variant of CampaignMetricsUpdatedEvent: the campaign_id of the event is
\* taken from the registry's first key, not from the metrics
CampaignMetricsUpdatedEventFirstKey(project_id, metrics) ==
    [event_type |-> "campaign.metrics_updated", project_id |-> project_id,
     campaign_id |-> IF active_campaigns_keys = << >> THEN metrics.campaign_id
                     ELSE active_campaigns_keys[1],
     metrics |-> metrics]

CampaignMetricsUpdatedEvent(project_id, metrics) ==
    [event_type |-> "campaign.metrics_updated", project_id |-> project_id,
     campaign_id |-> metrics.campaign_id, metrics |-> metrics]

\* variant of PercentageExceeded: the excess as a share of the spend
PercentageOfSpend(spend, budget_limit) ==
    RMulInt(Rat(spend - budget_limit, spend), 100)

PercentageExceeded(spend, budget_limit) ==
    RMulInt(Rat(spend - budget_limit, budget_limit), 100)

CampaignBudgetExceededEvent(project_id, campaign_id, budget_limit, spend) ==
    [event_type |-> "campaign.budget_exceeded", project_id |-> project_id,
     campaign_id |-> campaign_id, budget_limit |-> budget_limit,
     current_spend |-> spend,
     percentage_exceeded |-> PercentageExceeded(spend, budget_limit)]

\* the alert's message text is not modelled
CampaignPerformanceAlertEvent(project_id, campaign_id, budget_limit, spend) ==
    [event_type |-> "campaign.performance_alert", project_id |-> project_id,
     alert |-> [campaign_id |-> campaign_id, alert_type |-> "budget_exceeded",
                severity |-> "high", threshold |-> budget_limit,
                current_value |-> spend]]

CampaignPerformanceThresholdEvent(project_id, campaign_id, metric_name, threshold_type, threshold_value, current_value) ==
    [event_type |-> "campaign.performance_threshold", project_id |-> project_id,
     campaign_id |-> campaign_id, metric_name |-> metric_name,
     threshold_type |-> threshold_type, threshold_value |-> threshold_value,
     current_value |-> current_value]

----------------------------------------------------------------------------
(* Alert evaluation *)

\* performance_thresholds.get(f"{metric_name}_low") and (..."_high")
LowThreshold(metric_name) ==
    LET k == CASE metric_name = "roas" -> "roas_low"
               [] metric_name = "ctr" -> "ctr_low"
               [] metric_name = "cpc" -> "cpc_low"
               [] OTHER -> "cpm_low"
    IN  IF k \in DOMAIN performance_thresholds
        THEN Some(performance_thresholds[k]) ELSE None

HighThreshold(metric_name) ==
    LET k == CASE metric_name = "roas" -> "roas_high"
               [] metric_name = "ctr" -> "ctr_high"
               [] metric_name = "cpc" -> "cpc_high"
               [] OTHER -> "cpm_high"
    IN  IF k \in DOMAIN performance_thresholds
        THEN Some(performance_thresholds[k]) ELSE None

\* variant of CrossedLow: level-triggered, the previous value is not looked at
CrossedLowLevel(metric_name, current_value, previous_value) ==
    LET low_threshold == LowThreshold(metric_name)
    IN  /\ TruthyRat(low_threshold)
        /\ RLt(current_value, low_threshold[1])

\* variant of CrossedLow: a previous value of 0, the value registration
\* stores, counts as a value that was not below the threshold
CrossedLowFromUnset(metric_name, current_value, previous_value) ==
    LET low_threshold == LowThreshold(metric_name)
    IN  /\ TruthyRat(low_threshold)
        /\ RGe(previous_value, low_threshold[1]) \/ previous_value = RZero
        /\ RLt(current_value, low_threshold[1])

\* the first condition of _check_metric_threshold
CrossedLow(metric_name, current_value, previous_value) ==
    LET low_threshold == LowThreshold(metric_name)
    IN  /\ TruthyRat(low_threshold)
        /\ RGe(previous_value, low_threshold[1])
        /\ RLt(current_value, low_threshold[1])

\* variant of CrossedHigh: a current value equal to the threshold counts
CrossedHighInclusive(metric_name, current_value, previous_value) ==
    LET high_threshold == HighThreshold(metric_name)
    IN  /\ TruthyRat(high_threshold)
        /\ RLe(previous_value, high_threshold[1])
        /\ RGe(current_value, high_threshold[1])

\* variant of CrossedHigh: the second condition is tested on its own, not as
\* the alternative of the first, and holds for every value outside the band
CrossedHighOutsideBand(metric_name, current_value, previous_value) ==
    LET high_threshold == HighThreshold(metric_name)
    IN  /\ TruthyRat(high_threshold)
        /\ \/ /\ RLe(previous_value, high_threshold[1])
              /\ RGt(current_value, high_threshold[1])
           \/ CrossedLow(metric_name, current_value, previous_value)

\* the second condition of _check_metric_threshold
CrossedHigh(metric_name, current_value, previous_value) ==
    LET high_threshold == HighThreshold(metric_name)
    IN  /\ TruthyRat(high_threshold)
        /\ RLe(previous_value, high_threshold[1])
        /\ RGt(current_value, high_threshold[1])

\* the budget condition of _check_performance_alerts
BudgetExceeded(campaign_id, current_metrics) ==
    /\ campaign_id \in DOMAIN budget_limits
    /\ current_metrics.spend > budget_limits[campaign_id]

(***************************************************************************)
(* The awaits on the transport that one update can reach, in program       *)
(* order: 1 the metrics-updated publish, 2 the budget-exceeded publish,    *)
(* 3 the performance-alert publish, then for roas (4, 5), ctr (6, 7) and   *)
(* cpc (8, 9) the "below" and the "above" threshold publish.               *)
(***************************************************************************)
ThresholdSites == 4..9

\* variant of SiteMetric: ctr is evaluated before roas
SiteMetricCtrFirst(s) ==
    IF s \in {4, 5} THEN "ctr" ELSE IF s \in {6, 7} THEN "roas" ELSE "cpc"

SiteMetric(s) ==
    IF s \in {4, 5} THEN "roas" ELSE IF s \in {6, 7} THEN "ctr" ELSE "cpc"

SiteIsLow(s) == s \in {4, 6, 8}

\* does the update of frame f make the publish call at threshold site s
ThresholdSiteReached(f, s) ==
    LET metric_name == SiteMetric(s)
        current_value == f.updated_metrics[metric_name]
        previous_value == f.current_metrics[metric_name]
    IN  IF SiteIsLow(s)
        THEN CrossedLow(metric_name, current_value, previous_value)
        ELSE CrossedHigh(metric_name, current_value, previous_value)

SetMin(S) == CHOOSE x \in S : \A y \in S : x <= y

\* variant of NextSite: register_campaign goes on to the alert evaluation
NextSiteRegisterAlerts(f, s) ==
    IF s = 2 THEN 3
    ELSE LET budget == IF s = 1 /\ BudgetExceeded(f.campaign_id, f.updated_metrics)
                       THEN {2} ELSE {}
             thresholds == {x \in ThresholdSites :
                               x > s /\ ThresholdSiteReached(f, x)}
         IN  IF budget \cup thresholds = {} THEN 0
             ELSE SetMin(budget \cup thresholds)

\* variant of NextSite: the budget pair is published only by the update that
\* takes spend from within the limit to above it
NextSiteDebounced(f, s) ==
    IF f.op = "register" THEN 0
    ELSE IF s = 2 THEN 3
    ELSE LET budget == IF /\ s = 1
                          /\ BudgetExceeded(f.campaign_id, f.updated_metrics)
                          /\ ~BudgetExceeded(f.campaign_id, f.current_metrics)
                       THEN {2} ELSE {}
             thresholds == {x \in ThresholdSites :
                               x > s /\ ThresholdSiteReached(f, x)}
         IN  IF budget \cup thresholds = {} THEN 0
             ELSE SetMin(budget \cup thresholds)

\* the next publish call after the one at site s returned; 0: the call ends
NextSite(f, s) ==
    IF f.op = "register" THEN 0
    ELSE IF s = 2 THEN 3
    ELSE LET budget == IF s = 1 /\ BudgetExceeded(f.campaign_id, f.updated_metrics)
                       THEN {2} ELSE {}
             thresholds == {x \in ThresholdSites :
                               x > s /\ ThresholdSiteReached(f, x)}
         IN  IF budget \cup thresholds = {} THEN 0
             ELSE SetMin(budget \cup thresholds)

\* variant of EventAt: the metrics-updated event carries the metrics read
\* before the merge
EventAtPrevious(f, s) ==
    IF s = 1 THEN CampaignMetricsUpdatedEvent(f.project_id, f.current_metrics)
    ELSE IF s = 2
    THEN CampaignBudgetExceededEvent(f.project_id, f.campaign_id,
                                     f.budget_limit, f.updated_metrics.spend)
    ELSE IF s = 3
    THEN CampaignPerformanceAlertEvent(f.project_id, f.campaign_id,
                                       f.budget_limit, f.updated_metrics.spend)
    ELSE LET metric_name == SiteMetric(s)
         IN  CampaignPerformanceThresholdEvent(
                 f.project_id, f.campaign_id, metric_name,
                 IF SiteIsLow(s) THEN "below" ELSE "above",
                 IF SiteIsLow(s) THEN LowThreshold(metric_name)[1]
                 ELSE HighThreshold(metric_name)[1],
                 f.updated_metrics[metric_name])

\* the event built for the publish call at site s
EventAt(f, s) ==
    IF s = 1 THEN CampaignMetricsUpdatedEvent(f.project_id, f.updated_metrics)
    ELSE IF s = 2
    THEN CampaignBudgetExceededEvent(f.project_id, f.campaign_id,
                                     f.budget_limit, f.updated_metrics.spend)
    ELSE IF s = 3
    THEN CampaignPerformanceAlertEvent(f.project_id, f.campaign_id,
                                       f.budget_limit, f.updated_metrics.spend)
    ELSE LET metric_name == SiteMetric(s)
         IN  CampaignPerformanceThresholdEvent(
                 f.project_id, f.campaign_id, metric_name,
                 IF SiteIsLow(s) THEN "below" ELSE "above",
                 IF SiteIsLow(s) THEN LowThreshold(metric_name)[1]
                 ELSE HighThreshold(metric_name)[1],
                 f.updated_metrics[metric_name])

----------------------------------------------------------------------------
(* Call frames: the locals of one register_campaign / update_campaign_metrics
   call, the publish calls it has made (pubs) and what each returned (results).
   The frame of a register call also keeps, as current_metrics, the entry the
   call overwrote (NoMetrics when there was none); the call does not read it. *)

NoMetrics == CampaignMetrics("", "", "")

IdleFrame ==
    [pc |-> "idle", op |-> "none", project_id |-> "", campaign_id |-> "",
     metrics_data |-> EmptyDict, current_metrics |-> NoMetrics,
     updated_metrics |-> NoMetrics, budget_limit |-> 0, site |-> 0,
     pubs |-> << >>, results |-> << >>, raised |-> FALSE]

\* control reaches site s (0: the end of the call): build the event, call the
\* transport and suspend in it
Enter(f, s) ==
    IF s = 0 THEN [f EXCEPT !.pc = "done", !.site = 0]
    ELSE LET g == IF s = 2
                  THEN [f EXCEPT !.budget_limit = budget_limits[f.campaign_id]]
                  ELSE f
         IN  [g EXCEPT !.pc = "publishing", !.site = s,
                       !.pubs = Append(@, EventAt(g, s))]

\* variant of StoreInitial: an entry that exists is kept (setdefault)
StoreInitialIfAbsent(campaign_id, initial_metrics) ==
    IF campaign_id \in DOMAIN active_campaigns THEN active_campaigns
    ELSE DictSet(active_campaigns, campaign_id, initial_metrics)

\* self.active_campaigns[campaign_id] = initial_metrics
StoreInitial(campaign_id, initial_metrics) ==
    DictSet(active_campaigns, campaign_id, initial_metrics)

\* variant of UnregisteredReturn: the unknown campaign is created (an upsert)
UnregisteredCreates(t, f) ==
    /\ calls' = [calls EXCEPT ![t] = [f EXCEPT !.pc = "done"]]
    /\ active_campaigns' =
           DictSet(active_campaigns, f.campaign_id,
                   CampaignMetrics(f.campaign_id, "", ""))
    /\ active_campaigns_keys' = Append(active_campaigns_keys, f.campaign_id)
    /\ UNCHANGED budget_limits

\* the early return of update_campaign_metrics for an unknown campaign_id
UnregisteredReturn(t, f) ==
    /\ calls' = [calls EXCEPT ![t] = [f EXCEPT !.pc = "done"]]
    /\ UNCHANGED <<active_campaigns, active_campaigns_keys, budget_limits>>

\* variant of RegisterStep: a registration without a budget limit removes
\* the limit an earlier registration stored
RegisterStepClearsLimit(t, project_id, campaign_id, campaign_name, platform, budget_limit) ==
    LET initial_metrics == CampaignMetrics(campaign_id, campaign_name, platform)
    IN  /\ active_campaigns' = StoreInitial(campaign_id, initial_metrics)
        /\ active_campaigns_keys' =
               IF campaign_id \in DOMAIN active_campaigns
               THEN active_campaigns_keys
               ELSE Append(active_campaigns_keys, campaign_id)
        /\ budget_limits' =
               IF TruthyNum(budget_limit)
               THEN DictSet(budget_limits, campaign_id, budget_limit[1])
               ELSE [k \in DOMAIN budget_limits \ {campaign_id} |-> budget_limits[k]]
        /\ calls' = [calls EXCEPT ![t] =
               Enter([IdleFrame EXCEPT !.op = "register",
                                       !.project_id = project_id,
                                       !.campaign_id = campaign_id,
                                       !.current_metrics =
                                           DictGet(active_campaigns, campaign_id,
                                                   NoMetrics),
                                       !.updated_metrics = initial_metrics], 1)]

\* register_campaign up to its await
RegisterStep(t, project_id, campaign_id, campaign_name, platform, budget_limit) ==
    LET initial_metrics == CampaignMetrics(campaign_id, campaign_name, platform)
    IN  /\ active_campaigns' = StoreInitial(campaign_id, initial_metrics)
        /\ active_campaigns_keys' =
               IF campaign_id \in DOMAIN active_campaigns
               THEN active_campaigns_keys
               ELSE Append(active_campaigns_keys, campaign_id)
        /\ budget_limits' =
               IF TruthyNum(budget_limit)
               THEN DictSet(budget_limits, campaign_id, budget_limit[1])
               ELSE budget_limits
        /\ calls' = [calls EXCEPT ![t] =
               Enter([IdleFrame EXCEPT !.op = "register",
                                       !.project_id = project_id,
                                       !.campaign_id = campaign_id,
                                       !.current_metrics =
                                           DictGet(active_campaigns, campaign_id,
                                                   NoMetrics),
                                       !.updated_metrics = initial_metrics], 1)]

\* variant of UpdateStep: an update that finds another update of the same
\* campaign in flight stores its metrics and leaves the publishing to it
UpdateStepCoalesced(t, project_id, campaign_id, metrics_data) ==
    LET f == [IdleFrame EXCEPT !.op = "update", !.project_id = project_id,
                               !.campaign_id = campaign_id,
                               !.metrics_data = metrics_data]
    IN  IF campaign_id \notin DOMAIN active_campaigns
        THEN UnregisteredReturn(t, f)
        ELSE LET current_metrics == active_campaigns[campaign_id]
                 updated_metrics == UpdatedMetrics(current_metrics, metrics_data)
                 g == [f EXCEPT !.current_metrics = current_metrics,
                                !.updated_metrics = updated_metrics]
                 in_flight == \E u \in Tasks \ {t} :
                                  /\ calls[u].op = "update"
                                  /\ calls[u].campaign_id = campaign_id
                                  /\ calls[u].pc = "publishing"
             IN  /\ active_campaigns' =
                        DictSet(active_campaigns, campaign_id, updated_metrics)
                 /\ calls' = [calls EXCEPT ![t] =
                        IF in_flight THEN [g EXCEPT !.pc = "done"]
                        ELSE Enter(g, 1)]
                 /\ UNCHANGED <<active_campaigns_keys, budget_limits>>

\* variant of UpdateStep: the read of the stored entry is separated from the
\* write, so an update that finds another update of the same campaign in
\* flight merges over the entry that one had read
UpdateStepStaleRead(t, project_id, campaign_id, metrics_data) ==
    LET f == [IdleFrame EXCEPT !.op = "update", !.project_id = project_id,
                               !.campaign_id = campaign_id,
                               !.metrics_data = metrics_data]
        in_flight == {u \in Tasks \ {t} : /\ calls[u].op = "update"
                                          /\ calls[u].campaign_id = campaign_id
                                          /\ calls[u].pc = "publishing"}
    IN  IF campaign_id \notin DOMAIN active_campaigns
        THEN UnregisteredReturn(t, f)
        ELSE LET current_metrics ==
                     IF in_flight = {} THEN active_campaigns[campaign_id]
                     ELSE calls[CHOOSE u \in in_flight : TRUE].current_metrics
                 updated_metrics == UpdatedMetrics(current_metrics, metrics_data)
             IN  /\ active_campaigns' =
                        DictSet(active_campaigns, campaign_id, updated_metrics)
                 /\ calls' = [calls EXCEPT ![t] =
                        Enter([f EXCEPT !.current_metrics = current_metrics,
                                        !.updated_metrics = updated_metrics], 1)]
                 /\ UNCHANGED <<active_campaigns_keys, budget_limits>>

\* update_campaign_metrics up to its first await, or to its early return
UpdateStep(t, project_id, campaign_id, metrics_data) ==
    LET f == [IdleFrame EXCEPT !.op = "update", !.project_id = project_id,
                               !.campaign_id = campaign_id,
                               !.metrics_data = metrics_data]
    IN  IF campaign_id \notin DOMAIN active_campaigns
        THEN UnregisteredReturn(t, f)
        ELSE LET current_metrics == active_campaigns[campaign_id]
                 updated_metrics == UpdatedMetrics(current_metrics, metrics_data)
             IN  /\ active_campaigns' =
                        DictSet(active_campaigns, campaign_id, updated_metrics)
                 /\ calls' = [calls EXCEPT ![t] =
                        Enter([f EXCEPT !.current_metrics = current_metrics,
                                        !.updated_metrics = updated_metrics], 1)]
                 /\ UNCHANGED <<active_campaigns_keys, budget_limits>>

\* variant of PublishStep: a publish that fails puts the old entry back
PublishStepRollback(t, r) ==
    LET f == [calls[t] EXCEPT !.results = Append(@, r)]
    IN  /\ calls[t].pc = "publishing"
        /\ calls' = [calls EXCEPT ![t] =
               IF r = "raise" THEN [f EXCEPT !.pc = "done", !.raised = TRUE]
               ELSE Enter(f, NextSite(f, f.site))]
        /\ active_campaigns' =
               IF r # "true" /\ f.op = "update"
               THEN DictSet(active_campaigns, f.campaign_id, f.current_metrics)
               ELSE active_campaigns
        /\ UNCHANGED <<active_campaigns_keys, budget_limits>>

\* stop_after_attempt(3) of the retry decorator of publish_event
MaxAttempts == 3

\* what client.publish does in one attempt: it returns, or raises
AttemptOutcomes == {"ok", "error"}

\* NATSService.publish_event: with no client it returns False; otherwise
\* every attempt publishes and returns True or logs and raises again, the
\* retry decorator calls it again after an attempt that raised, and after
\* the last attempt it raises RetryError to the caller
publish_event(connected, attempts) ==
    IF ~connected THEN "false"
    ELSE IF \E i \in 1..MaxAttempts : attempts[i] = "ok" THEN "true"
    ELSE "raise"

\* variant of PublishStep: a metrics-updated publish that returned False is
\* made once more
PublishStepResend(t, r) ==
    LET f == [calls[t] EXCEPT !.results = Append(@, r)]
    IN  /\ calls[t].pc = "publishing"
        /\ calls' = [calls EXCEPT ![t] =
               IF r = "raise" THEN [f EXCEPT !.pc = "done", !.raised = TRUE]
               ELSE IF r = "false" /\ f.site = 1 /\ Len(f.pubs) = 1
               THEN Enter(f, 1)
               ELSE Enter(f, NextSite(f, f.site))]
        /\ UNCHANGED <<active_campaigns, active_campaigns_keys, budget_limits>>

\* what a publish call can do: return True, return False, or raise
PublishOutcomes ==
    {publish_event(connected, attempts) :
        connected \in BOOLEAN, attempts \in [1..MaxAttempts -> AttemptOutcomes]}

\* the publish call task t is suspended in completes with outcome r and the
\* call runs on to its next await or to its end
PublishStep(t, r) ==
    LET f == [calls[t] EXCEPT !.results = Append(@, r)]
    IN  /\ calls[t].pc = "publishing"
        /\ calls' = [calls EXCEPT ![t] =
               IF r = "raise" THEN [f EXCEPT !.pc = "done", !.raised = TRUE]
               ELSE Enter(f, NextSite(f, f.site))]
        /\ UNCHANGED <<active_campaigns, active_campaigns_keys, budget_limits>>

----------------------------------------------------------------------------
(* The API callers *)

register_campaign(t, project_id, campaign_id, info, budget_limit) ==
    /\ calls[t].pc = "idle"
    /\ RegisterStep(t, project_id, campaign_id, info[1], info[2], budget_limit)
    /\ UNCHANGED <<performance_thresholds, monitoring>>

update_campaign_metrics(t, project_id, campaign_id, metrics_data) ==
    /\ calls[t].pc = "idle"
    /\ UpdateStep(t, project_id, campaign_id, metrics_data)
    /\ UNCHANGED <<performance_thresholds, monitoring>>

PublishReturn(t, r) ==
    /\ PublishStep(t, r)
    /\ UNCHANGED <<performance_thresholds, monitoring>>

\* the call has returned (or raised) to its caller
CallReturn(t) ==
    /\ calls[t].pc = "done"
    /\ calls' = [calls EXCEPT ![t] = IdleFrame]
    /\ UNCHANGED <<active_campaigns, active_campaigns_keys, budget_limits,
                   performance_thresholds, monitoring>>

----------------------------------------------------------------------------
(* The read operations *)

get_campaign_metrics(campaign_id) ==
    IF campaign_id \in DOMAIN active_campaigns
    THEN Some(active_campaigns[campaign_id]) ELSE None

get_all_campaign_metrics ==
    [i \in 1..Len(active_campaigns_keys) |->
        active_campaigns[active_campaigns_keys[i]]]

\* variant of GetStep: a campaign_id that is not registered gets an entry
\* (as with a defaultdict)
GetStepCreates(campaign_id) ==
    /\ active_campaigns' =
           IF campaign_id \in DOMAIN active_campaigns THEN active_campaigns
           ELSE DictSet(active_campaigns, campaign_id,
                        CampaignMetrics(campaign_id, "", ""))
    /\ active_campaigns_keys' =
           IF campaign_id \in DOMAIN active_campaigns THEN active_campaigns_keys
           ELSE Append(active_campaigns_keys, campaign_id)
    /\ UNCHANGED <<budget_limits, performance_thresholds, calls, monitoring>>

\* what a get_campaign_metrics(campaign_id) call does to the service:
\* active_campaigns.get(campaign_id) writes nothing
GetStep(campaign_id) ==
    UNCHANGED <<active_campaigns, active_campaigns_keys, budget_limits,
                performance_thresholds, calls, monitoring>>

\* what a get_all_campaign_metrics() call does to the service:
\* list(active_campaigns.values()) writes nothing
GetAllStep ==
    UNCHANGED <<active_campaigns, active_campaigns_keys, budget_limits,
                performance_thresholds, calls, monitoring>>

----------------------------------------------------------------------------
(* Construction: CampaignPerformanceService.__init__ *)

IdleMonitoring ==
    [task |-> "none", pc |-> "none", cancel_requested |-> FALSE,
     demo |-> 0, iter_pos |-> 0, iter_size |-> 0, ticks |-> 0,
     stop_waiting |-> FALSE, stop_ready |-> FALSE, alive |-> 0,
     cancelled_at |-> "none", backoffs |-> 0]

Init ==
    /\ active_campaigns = EmptyDict
    /\ active_campaigns_keys = << >>
    /\ budget_limits = EmptyDict
    /\ performance_thresholds =
           [roas_low |-> Rat(2, 1), roas_high |-> Rat(5, 1),
            ctr_low |-> Rat(1, 1), ctr_high |-> Rat(5, 1),
            cpc_high |-> Rat(2, 1)]
    /\ calls = [t \in Tasks |-> IdleFrame]
    /\ monitoring = IdleMonitoring
    /\ api_calls = 0
    /\ history = {}

----------------------------------------------------------------------------
(* The monitoring loop.  monitoring.task is _monitoring_task: "none", or
   the asyncio task's state "pending" (not done), "finished" (done, returned)
   or "cancelled" (done, cancelled).  monitoring.pc is the await the loop is
   suspended at: "created" (not run yet), "call" (inside the register or
   update call of frame MonitorTask), "sleep30", "sleep60".
   monitoring.alive is the number of loop tasks the event loop holds that
   are not done; stop_waiting says that a stop_monitoring call is suspended
   in its await of the task it cancelled and stop_ready that this task is
   done; cancelled_at is the await at which the last task that ended got its
   CancelledError, and backoffs counts the passes of the loop that ended in
   the except Exception handler. *)

DemoProjectId == "12345678-1234-5678-9012-123456789012"

DemoCampaigns ==
    << [campaign_id |-> "demo_summer_sale_2024", campaign_name |-> "Summer Sale 2024",
        platform |-> "google_ads", budget_limit |-> 1000],
       [campaign_id |-> "demo_brand_awareness_q4", campaign_name |-> "Brand Awareness Q4",
        platform |-> "meta", budget_limit |-> 1500],
       [campaign_id |-> "demo_product_launch", campaign_name |-> "Product Launch Campaign",
        platform |-> "linkedin", budget_limit |-> 800] >>

\* values the random increments of generate_simulated_metrics can take
SimulatedSamples ==
    { [impressions |-> 1000, clicks |-> 50, spend |-> 100, conversions |-> 5,
       revenue |-> 250] }

\* the metrics_update dict generate_simulated_metrics builds
SimulatedUpdate(current_metrics, base) ==
    [impressions |-> current_metrics.impressions + base.impressions,
     clicks |-> current_metrics.clicks + base.clicks,
     spend |-> current_metrics.spend + base.spend,
     conversions |-> current_metrics.conversions + base.conversions,
     revenue |-> current_metrics.revenue + base.revenue]

\* the loop registers demo campaign number k
MonitorRegisterDemo(k) ==
    /\ RegisterStep(MonitorTask, DemoProjectId, DemoCampaigns[k].campaign_id,
                    DemoCampaigns[k].campaign_name, DemoCampaigns[k].platform,
                    Some(DemoCampaigns[k].budget_limit))
    /\ monitoring' = [monitoring EXCEPT !.pc = "call", !.demo = k]

\* the for loop over active_campaigns.items() reaches the entry at position
\* pos of an iteration begun when the dict had size entries
MonitorIterate(pos, size) ==
    IF Len(active_campaigns_keys) # size
    THEN \* RuntimeError: dictionary changed size during iteration
         /\ monitoring' = [monitoring EXCEPT !.pc = "sleep60", !.demo = 0,
                                             !.iter_pos = 0, !.iter_size = 0,
                                             !.backoffs = @ + 1]
         /\ calls' = [calls EXCEPT ![MonitorTask] = IdleFrame]
         /\ UNCHANGED <<active_campaigns, active_campaigns_keys, budget_limits>>
    ELSE IF pos > size
    THEN \* the refresh is complete
         /\ monitoring' = [monitoring EXCEPT !.pc = "sleep30", !.demo = 0,
                                             !.iter_pos = 0, !.iter_size = 0]
         /\ calls' = [calls EXCEPT ![MonitorTask] = IdleFrame]
         /\ UNCHANGED <<active_campaigns, active_campaigns_keys, budget_limits>>
    ELSE LET campaign_id == active_campaigns_keys[pos]
             current_metrics == active_campaigns[campaign_id]
         IN  \E base \in SimulatedSamples :
                 /\ UpdateStep(MonitorTask, DemoProjectId, campaign_id,
                               SimulatedUpdate(current_metrics, base))
                 /\ monitoring' = [monitoring EXCEPT !.pc = "call", !.demo = 0,
                                                     !.iter_pos = pos,
                                                     !.iter_size = size]

\* variant of MonitorAfterCall: an exception of the call ends the loop
MonitorAfterCallFatal(f) ==
    IF f.raised
    THEN /\ monitoring' = [monitoring EXCEPT !.task = "finished", !.pc = "none",
                                             !.demo = 0, !.iter_pos = 0,
                                             !.iter_size = 0, !.alive = @ - 1,
                                             !.stop_ready = monitoring.stop_waiting]
         /\ calls' = [calls EXCEPT ![MonitorTask] = IdleFrame]
         /\ UNCHANGED <<active_campaigns, active_campaigns_keys, budget_limits>>
    ELSE IF monitoring.demo \in 1..(Len(DemoCampaigns) - 1)
    THEN MonitorRegisterDemo(monitoring.demo + 1)
    ELSE IF monitoring.demo = Len(DemoCampaigns)
    THEN MonitorIterate(1, Len(active_campaigns_keys))
    ELSE MonitorIterate(monitoring.iter_pos + 1, monitoring.iter_size)

\* the loop goes on after the call of frame f returned or raised
MonitorAfterCall(f) ==
    IF f.raised
    THEN \* except Exception: log, sleep(60)
         /\ monitoring' = [monitoring EXCEPT !.pc = "sleep60", !.demo = 0,
                                             !.iter_pos = 0, !.iter_size = 0,
                                             !.backoffs = @ + 1]
         /\ calls' = [calls EXCEPT ![MonitorTask] = IdleFrame]
         /\ UNCHANGED <<active_campaigns, active_campaigns_keys, budget_limits>>
    ELSE IF monitoring.demo \in 1..(Len(DemoCampaigns) - 1)
    THEN MonitorRegisterDemo(monitoring.demo + 1)
    ELSE IF monitoring.demo = Len(DemoCampaigns)
    THEN MonitorIterate(1, Len(active_campaigns_keys))
    ELSE MonitorIterate(monitoring.iter_pos + 1, monitoring.iter_size)

\* variant of MonitorRuns: a cancellation requested while the loop is inside
\* a call of its refresh is looked at only between two refreshes
MonitorRunsThroughRefresh ==
    /\ monitoring.task = "pending"
    /\ ~monitoring.cancel_requested \/ monitoring.pc = "call"

MonitorRuns ==
    /\ monitoring.task = "pending"
    /\ ~monitoring.cancel_requested

\* a pass of the while loop begins: generate_simulated_metrics up to its
\* first await
MonitorRefreshWithin(limit) ==
    /\ MonitorRuns
    /\ monitoring.pc \in {"created", "sleep30", "sleep60"}
    /\ monitoring.ticks < limit
    /\ LET counted == [monitoring EXCEPT !.ticks = @ + 1]
       IN  IF DOMAIN active_campaigns = {}
           THEN /\ RegisterStep(MonitorTask, DemoProjectId,
                                DemoCampaigns[1].campaign_id,
                                DemoCampaigns[1].campaign_name,
                                DemoCampaigns[1].platform,
                                Some(DemoCampaigns[1].budget_limit))
                /\ monitoring' = [counted EXCEPT !.pc = "call", !.demo = 1]
           ELSE LET campaign_id == active_campaigns_keys[1]
                    current_metrics == active_campaigns[campaign_id]
                IN  \E base \in SimulatedSamples :
                        /\ UpdateStep(MonitorTask, DemoProjectId, campaign_id,
                                      SimulatedUpdate(current_metrics, base))
                        /\ monitoring' =
                               [counted EXCEPT !.pc = "call", !.demo = 0,
                                               !.iter_pos = 1,
                                               !.iter_size = Len(active_campaigns_keys)]
    /\ UNCHANGED <<performance_thresholds, bookkeeping>>

MonitorRefresh == MonitorRefreshWithin(MaxTicks)

\* the publish call the loop is suspended in completes; the loop runs on to
\* its next await
MonitorPublishReturn(r) ==
    /\ MonitorRuns
    /\ monitoring.pc = "call"
    /\ calls[MonitorTask].pc = "publishing"
    /\ LET f == [calls[MonitorTask] EXCEPT !.results = Append(@, r)]
           g == IF r = "raise" THEN [f EXCEPT !.pc = "done", !.raised = TRUE]
                ELSE Enter(f, NextSite(f, f.site))
       IN  IF g.pc = "done"
           THEN MonitorAfterCall(g)
           ELSE /\ calls' = [calls EXCEPT ![MonitorTask] = g]
                /\ UNCHANGED <<active_campaigns, active_campaigns_keys,
                               budget_limits, monitoring>>
    /\ UNCHANGED <<performance_thresholds, bookkeeping>>

\* the CancelledError of task.cancel() is thrown into the loop at its await
MonitorCancelled ==
    /\ monitoring.task = "pending"
    /\ monitoring.cancel_requested
    /\ monitoring' =
           [monitoring EXCEPT
               !.task = IF monitoring.pc \in {"call", "sleep30"}
                        THEN "finished"   \* except CancelledError: break
                        ELSE "cancelled", \* not started, or in the handler's sleep
               !.pc = "none", !.cancel_requested = FALSE,
               !.demo = 0, !.iter_pos = 0, !.iter_size = 0,
               !.alive = @ - 1, !.stop_ready = monitoring.stop_waiting,
               !.cancelled_at = monitoring.pc]
    /\ calls' = [calls EXCEPT ![MonitorTask] = IdleFrame]
    /\ UNCHANGED <<active_campaigns, active_campaigns_keys, budget_limits,
                   performance_thresholds, bookkeeping>>

\* variant of start_monitoring: a task is created whatever the state of the
\* one held
start_monitoringAlways ==
    /\ monitoring' = [monitoring EXCEPT !.task = "pending", !.pc = "created",
                                        !.cancel_requested = FALSE,
                                        !.alive = @ + 1, !.cancelled_at = "none",
                                        !.demo = 0, !.iter_pos = 0,
                                        !.iter_size = 0]
    /\ UNCHANGED <<active_campaigns, active_campaigns_keys, budget_limits,
                   performance_thresholds, calls, bookkeeping>>

\* variant of start_monitoring: a task is created only when none was ever
\* created
start_monitoringOnce ==
    /\ IF monitoring.task = "none"
       THEN monitoring' = [monitoring EXCEPT !.task = "pending", !.pc = "created",
                                             !.cancel_requested = FALSE,
                                             !.alive = @ + 1,
                                             !.cancelled_at = "none"]
       ELSE UNCHANGED monitoring
    /\ UNCHANGED <<active_campaigns, active_campaigns_keys, budget_limits,
                   performance_thresholds, calls, bookkeeping>>

\* variant of start_monitoring: a task whose cancellation was requested
\* counts as stopped
start_monitoringWhileCancelling ==
    /\ IF monitoring.task # "pending" \/ monitoring.cancel_requested
       THEN monitoring' = [monitoring EXCEPT !.task = "pending", !.pc = "created",
                                             !.cancel_requested = FALSE,
                                             !.alive = @ + 1,
                                             !.cancelled_at = "none",
                                             !.demo = 0, !.iter_pos = 0,
                                             !.iter_size = 0]
       ELSE UNCHANGED monitoring
    /\ UNCHANGED <<active_campaigns, active_campaigns_keys, budget_limits,
                   performance_thresholds, calls, bookkeeping>>

start_monitoring ==
    /\ IF monitoring.task # "pending"
       THEN monitoring' = [monitoring EXCEPT !.task = "pending", !.pc = "created",
                                             !.cancel_requested = FALSE,
                                             !.alive = @ + 1,
                                             !.cancelled_at = "none"]
       ELSE UNCHANGED monitoring
    /\ UNCHANGED <<active_campaigns, active_campaigns_keys, budget_limits,
                   performance_thresholds, calls, bookkeeping>>

\* stop_monitoring up to its await of the task
stop_monitoring ==
    /\ ~monitoring.stop_waiting
    /\ IF monitoring.task = "pending"
       THEN monitoring' = [monitoring EXCEPT !.cancel_requested = TRUE,
                                             !.stop_waiting = TRUE]
       ELSE UNCHANGED monitoring
    /\ UNCHANGED <<active_campaigns, active_campaigns_keys, budget_limits,
                   performance_thresholds, calls, bookkeeping>>

\* variant of StopReturn: stop_monitoring does not await the task
StopReturnEarly ==
    /\ monitoring.stop_waiting
    /\ monitoring' = [monitoring EXCEPT !.stop_waiting = FALSE,
                                        !.stop_ready = FALSE]
    /\ UNCHANGED <<active_campaigns, active_campaigns_keys, budget_limits,
                   performance_thresholds, calls, bookkeeping>>

\* the awaited task is done: stop_monitoring returns
StopReturn ==
    /\ monitoring.stop_waiting
    /\ monitoring.stop_ready
    /\ monitoring' = [monitoring EXCEPT !.stop_waiting = FALSE,
                                        !.stop_ready = FALSE]
    /\ UNCHANGED <<active_campaigns, active_campaigns_keys, budget_limits,
                   performance_thresholds, calls, bookkeeping>>

----------------------------------------------------------------------------
(* Health *)

\* str() of a natural number and of a bool
DecimalDigits == <<"0", "1", "2", "3", "4", "5", "6", "7", "8", "9">>

RECURSIVE Str(_)
Str(n) ==
    IF n < 10 THEN DecimalDigits[n + 1]
    ELSE Str(n \div 10) \o DecimalDigits[(n % 10) + 1]

BoolStr(b) == IF b THEN "True" ELSE "False"

\* the states of the client a NATSService holds: none (never connected),
\* connected, or a client whose connection is lost
NatsClients == {"none", "connected", "lost"}

\* NATSService.health_check
nats_health_check(client) ==
    IF client = "none" THEN [status |-> "unhealthy", error |-> "Not connected"]
    ELSE IF client = "connected" THEN [status |-> "healthy"]
    ELSE [status |-> "unhealthy", error |-> "Connection lost"]

\* variant of health_check: monitoring_active says that a loop task was
\* created, done or not
health_checkEverStarted ==
    [service |-> "healthy",
     active_campaigns |-> Str(Cardinality(DOMAIN active_campaigns)),
     monitoring_active |-> BoolStr(monitoring.task # "none"),
     nats |-> "healthy"]

\* CampaignPerformanceService.health_check
health_check ==
    [service |-> "healthy",
     active_campaigns |-> Str(Cardinality(DOMAIN active_campaigns)),
     monitoring_active |->
         BoolStr(/\ monitoring.task # "none"
                 /\ monitoring.task \notin {"finished", "cancelled"}),
     nats |-> "healthy"]

----------------------------------------------------------------------------
(* One caller issuing its calls one after the other *)

\* the campaign the sequential caller registers; its updates also name the
\* other campaign ids, which then are never registered
SeqCampaignIds == {"c1"}

SeqRegister ==
    \E p \in ProjectIds, c \in SeqCampaignIds, i \in CampaignInfos, b \in BudgetInputs :
        register_campaign(1, p, c, i, b) /\ UNCHANGED bookkeeping

SeqUpdate ==
    \E p \in ProjectIds, c \in CampaignIds, d \in MetricsInputs :
        update_campaign_metrics(1, p, c, d) /\ UNCHANGED bookkeeping

SeqPublishReturn ==
    \E r \in PublishOutcomes : PublishReturn(1, r) /\ UNCHANGED bookkeeping

SeqCallReturn == CallReturn(1) /\ UNCHANGED bookkeeping

NextSeq == SeqRegister \/ SeqUpdate \/ SeqPublishReturn \/ SeqCallReturn

SpecSeq == Init /\ [][NextSeq]_vars

----------------------------------------------------------------------------
(* One caller moving the metrics of one campaign back and forth across the
   thresholds; history collects the threshold events of its returned calls *)

EdgeMetricsInputs ==
    { [impressions |-> 1000, clicks |-> 60, spend |-> 100, revenue |-> 600],
      [revenue |-> 50],
      [revenue |-> 100],
      [revenue |-> 300],
      [revenue |-> 800],
      [clicks |-> 5],
      [clicks |-> 8],
      [clicks |-> 30],
      [clicks |-> 70],
      [impressions |-> 1000, clicks |-> 60, spend |-> 150, revenue |-> 900] }

ThresholdEventsOf(f) ==
    {<<f.campaign_id, f.pubs[i].metric_name, f.pubs[i].threshold_type>> :
        i \in {j \in 1..Len(f.pubs) :
                  f.pubs[j].event_type = "campaign.performance_threshold"}}

EdgeRegister ==
    register_campaign(1, "p1", "c1", <<"Spring", "google_ads">>, None)
    /\ UNCHANGED bookkeeping

EdgeUpdate ==
    \E d \in EdgeMetricsInputs :
        update_campaign_metrics(1, "p1", "c1", d) /\ UNCHANGED bookkeeping

EdgePublishReturn ==
    \E r \in PublishOutcomes : PublishReturn(1, r) /\ UNCHANGED bookkeeping

EdgeCallReturn ==
    /\ CallReturn(1)
    /\ history' = history \cup ThresholdEventsOf(calls[1])
    /\ UNCHANGED api_calls

NextEdge == EdgeRegister \/ EdgeUpdate \/ EdgePublishReturn \/ EdgeCallReturn

SpecEdge == Init /\ [][NextEdge]_vars

----------------------------------------------------------------------------
(* One caller registering one campaign and updating it, one call after the
   other; history is the set of the metrics with a low threshold whose stored
   value has been at or above that threshold since the campaign was last
   registered *)

LowMetricsInputs ==
    { [impressions |-> 1000, clicks |-> 5, spend |-> 100, revenue |-> 100],
      [revenue |-> 150],
      [revenue |-> 50],
      [revenue |-> 600],
      [clicks |-> 8],
      [clicks |-> 30] }

LowMetrics == {"roas", "ctr"}

\* the metrics that are at or above their low threshold in entry m
AtOrAboveLow(m) ==
    {metric_name \in LowMetrics : RGe(m[metric_name], LowThreshold(metric_name)[1])}

LowRegister ==
    /\ register_campaign(1, "p1", "c1", <<"Spring", "google_ads">>, None)
    /\ history' = {}
    /\ UNCHANGED api_calls

LowUpdate ==
    \E d \in LowMetricsInputs :
        /\ update_campaign_metrics(1, "p1", "c1", d)
        /\ history' =
               IF "c1" \in DOMAIN active_campaigns
               THEN history \cup AtOrAboveLow(UpdatedMetrics(active_campaigns["c1"], d))
               ELSE history
        /\ UNCHANGED api_calls

LowPublishReturn ==
    \E r \in PublishOutcomes : PublishReturn(1, r) /\ UNCHANGED bookkeeping

LowCallReturn == CallReturn(1) /\ UNCHANGED bookkeeping

NextLow == LowRegister \/ LowUpdate \/ LowPublishReturn \/ LowCallReturn

SpecLow == Init /\ [][NextLow]_vars

----------------------------------------------------------------------------
(* One caller registering one campaign again and again, with and without a
   budget limit, and updating it, one call after the other.  history holds
   <<"last", b>> for the budget_limit argument b of the last register call
   and <<"ever", b>> for the argument of every register call so far. *)

ReregMetricsInputs == { [spend |-> 100], [spend |-> 200], [spend |-> 1200] }

ReregRegister ==
    \E b \in BudgetInputs :
        /\ register_campaign(1, "p1", "c1", <<"Spring", "google_ads">>, b)
        /\ history' = {e \in history : e[1] = "ever"}
                          \cup {<<"last", b>>, <<"ever", b>>}
        /\ UNCHANGED api_calls

ReregUpdate ==
    \E d \in ReregMetricsInputs :
        update_campaign_metrics(1, "p1", "c1", d) /\ UNCHANGED bookkeeping

ReregPublishReturn ==
    \E r \in PublishOutcomes : PublishReturn(1, r) /\ UNCHANGED bookkeeping

ReregCallReturn == CallReturn(1) /\ UNCHANGED bookkeeping

NextRereg == ReregRegister \/ ReregUpdate \/ ReregPublishReturn \/ ReregCallReturn

SpecRereg == Init /\ [][NextRereg]_vars

----------------------------------------------------------------------------
(* One caller submitting updates of one campaign one after the other, each
   awaited before the next.  history keeps two logs, each entry with its
   position: <<"submitted", n, spend>> for the n-th update submitted on the
   registered campaign, with the spend the update asks for (the stored spend
   when it names none), and <<"published", k, spend>> for the k-th
   metrics-updated event an update call handed to the transport. *)

OrderMetricsInputs ==
    { [impressions |-> 1000, spend |-> 100],
      [impressions |-> 1100, spend |-> 110],
      [impressions |-> 1200, spend |-> 120],
      [impressions |-> 1300] }

OrderBudgetInputs == {None, Some(150)}

LogCount(kind) == Cardinality({h \in history : h[1] = kind})

\* positions in the pubs of task t of the metrics-updated publish calls an
\* update call makes in this step
NewMetricsPubs(t) ==
    {i \in (Len(calls[t].pubs) + 1)..Len(calls'[t].pubs) :
        /\ calls'[t].op = "update"
        /\ calls'[t].pubs[i].event_type = "campaign.metrics_updated"}

\* the published log after this step
LogPublished(t) ==
    history \cup
        {<<"published",
           LogCount("published") + Cardinality({j \in NewMetricsPubs(t) : j <= i}),
           calls'[t].pubs[i].metrics.spend>> : i \in NewMetricsPubs(t)}

OrdRegister ==
    \E b \in OrderBudgetInputs :
        /\ register_campaign(1, "p1", "c1", <<"Spring", "linkedin">>, b)
        /\ UNCHANGED bookkeeping

OrdUpdate ==
    \E d \in OrderMetricsInputs :
        /\ api_calls < MaxOrderCalls
        /\ update_campaign_metrics(1, "p1", "c1", d)
        /\ api_calls' = api_calls + 1
        /\ history' =
               IF "c1" \in DOMAIN active_campaigns
               THEN LogPublished(1) \cup
                        {<<"submitted", LogCount("submitted") + 1,
                           DictGet(d, "spend", active_campaigns["c1"].spend)>>}
               ELSE history

OrdPublishReturn ==
    \E r \in PublishOutcomes :
        /\ PublishReturn(1, r)
        /\ history' = LogPublished(1)
        /\ UNCHANGED api_calls

OrdCallReturn == CallReturn(1) /\ UNCHANGED bookkeeping

NextOrder == OrdRegister \/ OrdUpdate \/ OrdPublishReturn \/ OrdCallReturn

SpecOrder == Init /\ [][NextOrder]_vars

----------------------------------------------------------------------------
(* One caller updating one campaign, one call after the other, against a
   transport that may fail.  history keeps one record per update call of the
   registered campaign that has returned: its number n, the spend it asked
   for, the spends of the metrics-updated events it handed to the transport
   (sent), what its metrics-updated publish returned (result), the types of
   all its events in order (kinds), whether a publish call raised, and
   whether a budget limit is stored that its resulting spend exceeds. *)

\* the metrics of the i-th update (i from 0): spend 100, 110, 120, ...
RecoverMetricsInput(i) == [spend |-> 100 + i * 10]

RecoverBudgetInputs == {None, Some(100), Some(110)}

UpdateRecord(n, f) ==
    [n |-> n,
     asked |-> f.metrics_data.spend,
     sent |-> SelectSeq([i \in 1..Len(f.pubs) |->
                            IF f.pubs[i].event_type = "campaign.metrics_updated"
                            THEN f.pubs[i].metrics.spend ELSE -1],
                        LAMBDA x : x # -1),
     result |-> f.results[1],
     kinds |-> [i \in 1..Len(f.pubs) |-> f.pubs[i].event_type],
     raised |-> f.raised,
     over |-> /\ f.campaign_id \in DOMAIN budget_limits
              /\ f.updated_metrics.spend > budget_limits[f.campaign_id]]

RecRegister ==
    \E b \in RecoverBudgetInputs :
        /\ register_campaign(1, "p1", "c1", <<"Spring", "twitter">>, b)
        /\ UNCHANGED bookkeeping

RecUpdate ==
    /\ api_calls < MaxRecoverCalls
    /\ "c1" \in DOMAIN active_campaigns
    /\ update_campaign_metrics(1, "p1", "c1", RecoverMetricsInput(api_calls))
    /\ api_calls' = api_calls + 1
    /\ UNCHANGED history

RecPublishReturn ==
    \E r \in PublishOutcomes : PublishReturn(1, r) /\ UNCHANGED bookkeeping

RecCallReturn ==
    /\ CallReturn(1)
    /\ history' =
           IF calls[1].op = "update"
           THEN history \cup {UpdateRecord(api_calls, calls[1])}
           ELSE history
    /\ UNCHANGED api_calls

NextRecover == RecRegister \/ RecUpdate \/ RecPublishReturn \/ RecCallReturn

SpecRecover == Init /\ [][NextRecover]_vars

----------------------------------------------------------------------------
(* A caller that registers, updates and reads.  history keeps what the
   reads made since the last register or update returned: <<"get", n,
   campaign_id, result>> and <<"all", n, result>> for the n-th read;
   api_calls counts these reads. *)

ReadMetricsInputs ==
    { [impressions |-> 1000, clicks |-> 60, spend |-> 100, revenue |-> 600],
      [spend |-> 1200] }

ReadRegister ==
    \E c \in CampaignIds :
        /\ register_campaign(1, "p1", c, <<"Spring", "google_ads">>, None)
        /\ api_calls' = 0
        /\ history' = {}

ReadUpdate ==
    \E c \in CampaignIds, d \in ReadMetricsInputs :
        /\ update_campaign_metrics(1, "p1", c, d)
        /\ api_calls' = 0
        /\ history' = {}

ReadPublishReturn ==
    \E r \in PublishOutcomes : PublishReturn(1, r) /\ UNCHANGED bookkeeping

ReadCallReturn == CallReturn(1) /\ UNCHANGED bookkeeping

ReadOne ==
    \E c \in CampaignIds :
        /\ api_calls < MaxReads
        /\ GetStep(c)
        /\ api_calls' = api_calls + 1
        /\ history' = history \cup
               {<<"get", api_calls + 1, c, get_campaign_metrics(c)>>}

ReadAll ==
    /\ api_calls < MaxReads
    /\ GetAllStep
    /\ api_calls' = api_calls + 1
    /\ history' = history \cup {<<"all", api_calls + 1, get_all_campaign_metrics>>}

NextRead ==
    \/ ReadRegister
    \/ ReadUpdate
    \/ ReadPublishReturn
    \/ ReadCallReturn
    \/ ReadOne
    \/ ReadAll

SpecRead == Init /\ [][NextRead]_vars

----------------------------------------------------------------------------
(* Concurrent API callers, interleaving at the awaits on the transport *)

ConcMetricsInputs ==
    { [impressions |-> 1000, clicks |-> 60, spend |-> 100, revenue |-> 600],
      [spend |-> 1200] }

ConcBudgetInputs == {None, Some(1000)}

ApiRegister(T, limit) ==
    \E t \in T, c \in CampaignIds, b \in ConcBudgetInputs :
        /\ api_calls < limit
        /\ register_campaign(t, "p1", c, <<"Spring", "google_ads">>, b)
        /\ api_calls' = api_calls + 1
        /\ UNCHANGED history

ApiUpdate(T, limit) ==
    \E t \in T, c \in CampaignIds, d \in ConcMetricsInputs :
        /\ api_calls < limit
        /\ update_campaign_metrics(t, "p2", c, d)
        /\ api_calls' = api_calls + 1
        /\ UNCHANGED history

ApiPublishReturn(T) ==
    \E t \in T, r \in PublishOutcomes : PublishReturn(t, r) /\ UNCHANGED bookkeeping

ApiCallReturn(T) == \E t \in T : CallReturn(t) /\ UNCHANGED bookkeeping

ConcRegister == ApiRegister(Callers, MaxCalls)
ConcUpdate == ApiUpdate(Callers, MaxCalls)
ConcPublishReturn == ApiPublishReturn(Callers)
ConcCallReturn == ApiCallReturn(Callers)

NextApi == ConcRegister \/ ConcUpdate \/ ConcPublishReturn \/ ConcCallReturn

SpecApi == Init /\ [][NextApi]_vars

----------------------------------------------------------------------------
(* Campaigns registered once each by the first caller, and updated by
   concurrent callers *)

ParMetricsInputs == { [spend |-> 100], [spend |-> 1200] }

ParRegister ==
    \E c \in CampaignIds, b \in ConcBudgetInputs :
        /\ c \notin DOMAIN active_campaigns
        /\ register_campaign(1, "p1", c, <<"Spring", "google_ads">>, b)
        /\ UNCHANGED bookkeeping

ParUpdate ==
    \E t \in Callers, c \in CampaignIds, d \in ParMetricsInputs :
        /\ api_calls < MaxParCalls
        /\ update_campaign_metrics(t, "p1", c, d)
        /\ api_calls' = api_calls + 1
        /\ UNCHANGED history

ParPublishReturn == ApiPublishReturn(Callers)
ParCallReturn == ApiCallReturn(Callers)

NextPar == ParRegister \/ ParUpdate \/ ParPublishReturn \/ ParCallReturn

SpecPar == Init /\ [][NextPar]_vars

----------------------------------------------------------------------------
(* The service: the monitoring loop, its lifecycle, and an API caller whose
   calls interleave with the loop at the awaits *)

LoopCallers == {1}

SvcRegister == ApiRegister(LoopCallers, MaxLoopCalls)
SvcUpdate == ApiUpdate(LoopCallers, MaxLoopCalls)
SvcPublishReturn == ApiPublishReturn(LoopCallers)
SvcCallReturn == ApiCallReturn(LoopCallers)
LoopPublishReturn == \E r \in PublishOutcomes : MonitorPublishReturn(r)

Next ==
    \/ SvcRegister
    \/ SvcUpdate
    \/ SvcPublishReturn
    \/ SvcCallReturn
    \/ start_monitoring
    \/ stop_monitoring
    \/ StopReturn
    \/ MonitorRefresh
    \/ LoopPublishReturn
    \/ MonitorCancelled

Spec == Init /\ [][Next]_vars

----------------------------------------------------------------------------
(* The lifecycle of the monitoring loop: starts and stops in any order, the
   loop running up to MaxLifeTicks refreshes, and a caller registering a
   campaign while the loop runs.  SpecLifeFair is the lifecycle and the loop
   with what the event loop guarantees: a task that was cancelled is resumed
   with its CancelledError, and a coroutine awaiting a task that is done is
   resumed. *)

LifeRefresh == MonitorRefreshWithin(MaxLifeTicks)
\* a caller registers a campaign, once, at any moment of the loop
LifeRegister ==
    \E b \in ConcBudgetInputs :
        /\ "c1" \notin DOMAIN active_campaigns
        /\ register_campaign(1, "p1", "c1", <<"Spring", "google_ads">>, b)
        /\ UNCHANGED bookkeeping

NextLife ==
    \/ start_monitoring
    \/ stop_monitoring
    \/ StopReturn
    \/ LifeRefresh
    \/ LoopPublishReturn
    \/ MonitorCancelled
    \/ LifeRegister
    \/ SvcPublishReturn
    \/ SvcCallReturn

SpecLife == Init /\ [][NextLife]_vars

\* the lifecycle and the loop alone, up to MaxStopTicks refreshes
StopRefresh == MonitorRefreshWithin(MaxStopTicks)

NextStop ==
    \/ start_monitoring
    \/ stop_monitoring
    \/ StopReturn
    \/ StopRefresh
    \/ LoopPublishReturn
    \/ MonitorCancelled

SpecLifeFair ==
    Init /\ [][NextStop]_vars /\ WF_vars(MonitorCancelled) /\ WF_vars(StopReturn)

----------------------------------------------------------------------------
(* The loop refreshing while a caller registers a campaign, with a transport
   that answers every publish with True or False and never raises *)

AnsweringOutcomes == PublishOutcomes \ {"raise"}

TickLoopPublishReturn == \E r \in AnsweringOutcomes : MonitorPublishReturn(r)

TickPublishReturn ==
    \E r \in AnsweringOutcomes : PublishReturn(1, r) /\ UNCHANGED bookkeeping

NextTick ==
    \/ start_monitoring
    \/ LifeRefresh
    \/ TickLoopPublishReturn
    \/ LifeRegister
    \/ TickPublishReturn
    \/ SvcCallReturn

SpecTick == Init /\ [][NextTick]_vars

----------------------------------------------------------------------------
(* Properties *)

AllCampaignIds ==
    CampaignIds \cup {DemoCampaigns[k].campaign_id : k \in 1..Len(DemoCampaigns)}

\* C1: an update_campaign_metrics call of an API caller on a campaign_id that
\* is not in the registry leaves the registry, its key order and the budget
\* limits unchanged, makes no publish call (the call is over in that step with
\* an empty list of publish calls), does not raise, and touches no other task.
C1_UnregisteredUpdateIsNoOp ==
    [][\A t \in Callers :
          (/\ calls[t].pc = "idle"
           /\ calls'[t].op = "update"
           /\ calls'[t].campaign_id \notin DOMAIN active_campaigns)
          => /\ active_campaigns' = active_campaigns
             /\ active_campaigns_keys' = active_campaigns_keys
             /\ budget_limits' = budget_limits
             /\ calls'[t].pc = "done"
             /\ calls'[t].pubs = << >>
             /\ ~calls'[t].raised
             /\ \A u \in Tasks \ {t} : calls'[u] = calls[u]]_vars

\* an update on an unknown campaign has returned while another campaign is
\* registered and the monitoring loop is inside a call
C1_Witness ==
    \E t \in Callers :
        /\ calls[t].op = "update"
        /\ calls[t].pc = "done"
        /\ calls[t].pubs = << >>
        /\ calls[t].campaign_id \notin DOMAIN active_campaigns
        /\ DOMAIN active_campaigns # {}
        /\ monitoring.pc = "call"

DerivedConsistent(m) ==
    /\ m.ctr = CalcCtr(m)
    /\ m.cpc = CalcCpc(m)
    /\ m.cpm = CalcCpm(m)
    /\ m.roas = CalcRoas(m)

\* C2: in every reachable state, whatever the interleaving of registrations,
\* updates and monitoring-loop ticks, every entry that get_campaign_metrics or
\* get_all_campaign_metrics returns has ctr, cpc, cpm and roas equal to the
\* calculator applied to that entry's own raw counters.
C2_DerivedFieldsConsistentAtRest ==
    /\ \A c \in AllCampaignIds :
          LET got == get_campaign_metrics(c)
          IN  ~IsNone(got) => DerivedConsistent(got[1])
    /\ \A i \in DOMAIN get_all_campaign_metrics :
          DerivedConsistent(get_all_campaign_metrics[i])

\* an API update and a loop update are both suspended in a publish, and a
\* stored entry has non-zero derived metrics
C2_Witness ==
    /\ \E t \in Callers : calls[t].pc = "publishing" /\ calls[t].op = "update"
    /\ monitoring.pc = "call"
    /\ calls[MonitorTask].op = "update"
    /\ \E c \in DOMAIN active_campaigns :
          /\ active_campaigns[c].clicks > 0
          /\ active_campaigns[c].spend > 0
          /\ active_campaigns[c].ctr # RZero
          /\ active_campaigns[c].roas # RZero

\* the frames of update calls that found their campaign registered
UpdateFrames ==
    {t \in Tasks : calls[t].op = "update" /\ calls[t].pubs # << >>}

DerivedAsSpecified(m) ==
    /\ m.ctr[2] > 0 /\ m.cpc[2] > 0 /\ m.cpm[2] > 0 /\ m.roas[2] > 0
    /\ IF m.impressions = 0 THEN m.ctr = <<0, 1>>
       ELSE m.ctr[1] * m.impressions = m.clicks * 100 * m.ctr[2]
    /\ IF m.clicks = 0 THEN m.cpc = <<0, 1>>
       ELSE m.cpc[1] * m.clicks = m.spend * m.cpc[2]
    /\ IF m.impressions = 0 THEN m.cpm = <<0, 1>>
       ELSE m.cpm[1] * m.impressions = m.spend * 1000 * m.cpm[2]
    /\ IF m.spend = 0 THEN m.roas = <<0, 1>>
       ELSE m.roas[1] * m.spend = m.revenue * m.roas[2]

\* C3: the entry an update stores (and the one it hands to the metrics-updated
\* publish) has ctr = clicks/impressions*100, cpc = spend/clicks,
\* cpm = spend/impressions*1000 and roas = revenue/spend, each exactly 0 when
\* its denominator is 0; no derived value has a zero denominator.
C3_DerivedMetricsFormulas ==
    \A t \in UpdateFrames :
        /\ DerivedAsSpecified(calls[t].updated_metrics)
        /\ DerivedAsSpecified(active_campaigns[calls[t].campaign_id])
        /\ DerivedAsSpecified(calls[t].pubs[1].metrics)

\* an update stored an entry with clicks = 0 and impressions = 0 (cpc, ctr and
\* cpm are 0 by rule) and a roas that is a proper fraction
C3_Witness ==
    \E t \in UpdateFrames :
        LET m == active_campaigns[calls[t].campaign_id]
        IN  /\ m = calls[t].updated_metrics
            /\ m.clicks = 0 /\ m.impressions = 0
            /\ m.spend > 0 /\ m.revenue > 0
            /\ m.roas = <<1, 6>>

ZeroEntry(m) ==
    /\ m.impressions = 0 /\ m.clicks = 0 /\ m.spend = 0
    /\ m.conversions = 0 /\ m.revenue = 0
    /\ m.ctr = <<0, 1>> /\ m.cpc = <<0, 1>> /\ m.cpm = <<0, 1>>
    /\ m.roas = <<0, 1>>

\* C4: from the registration step of register_campaign(c) until the caller
\* issues its next call, get_campaign_metrics(c) returns an entry for c whose
\* raw counters and derived metrics are all 0, also when the registration
\* overwrote an entry with non-zero metrics.
C4_RegisterYieldsZeroEntry ==
    \A t \in Tasks :
        calls[t].op = "register"
        => LET got == get_campaign_metrics(calls[t].campaign_id)
           IN  /\ ~IsNone(got)
               /\ got[1].campaign_id = calls[t].campaign_id
               /\ ZeroEntry(got[1])

\* a registration that overwrote an entry with non-zero metrics has returned
C4_Witness ==
    \E t \in Tasks :
        /\ calls[t].op = "register"
        /\ calls[t].pc = "done"
        /\ calls[t].current_metrics.spend > 0
        /\ calls[t].current_metrics.clicks > 0

RawKeys == {"impressions", "clicks", "spend", "conversions", "revenue"}

Restrict(d, S) == [k \in (DOMAIN d) \cap S |-> d[k]]

\* C5: the entry an update stores has, for each of impressions, clicks, spend,
\* conversions and revenue, the value given in metrics_data when the key is
\* present and the value of the entry it replaced when the key is absent; it
\* keeps campaign_id, campaign_name and platform; and it is the entry the same
\* update would store without the keys other than these five.
C5_MergeKeepsAbsentOverwritesPresent ==
    \A t \in UpdateFrames :
        LET f == calls[t]
            stored == active_campaigns[f.campaign_id]
        IN  /\ \A k \in RawKeys :
                  stored[k] = IF k \in DOMAIN f.metrics_data
                              THEN f.metrics_data[k]
                              ELSE f.current_metrics[k]
            /\ stored.campaign_id = f.current_metrics.campaign_id
            /\ stored.campaign_name = f.current_metrics.campaign_name
            /\ stored.platform = f.current_metrics.platform
            /\ stored = UpdatedMetrics(f.current_metrics,
                                       Restrict(f.metrics_data, RawKeys))

\* an update that gave only the spend key, with a new value, has returned; the
\* entry it replaced had non-zero impressions, clicks and revenue
C5_Witness ==
    \E t \in UpdateFrames :
        /\ DOMAIN calls[t].metrics_data = {"spend"}
        /\ calls[t].current_metrics.impressions > 0
        /\ calls[t].current_metrics.clicks > 0
        /\ calls[t].current_metrics.revenue > 0
        /\ calls[t].current_metrics.spend # calls[t].metrics_data.spend
        /\ calls[t].pc = "done"

\* positions in f.pubs of the publish calls for events of one type
PubsOfType(f, event_type) ==
    {i \in 1..Len(f.pubs) : f.pubs[i].event_type = event_type}

\* the publish call number i of frame f has returned True or False
Returned(f, i) == Len(f.results) >= i /\ f.results[i] # "raise"

\* the call of frame f ran to its end without a publish call raising
RanToEnd(f) == f.pc = "done" /\ ~f.raised

\* C6: for a campaign with stored budget limit L, an update whose resulting
\* spend S is greater than L makes, once its metrics-updated publish has
\* returned, exactly one BudgetExceeded publish, with budget_limit = L,
\* current_spend = S and percentage_exceeded = (S - L)/L*100 (20 for L = 1000,
\* S = 1200), and once that has returned exactly one PerformanceAlert publish
\* with alert_type "budget_exceeded" and severity "high"; it never makes more
\* than one of either.  (A publish call that raises ends the update.)
C6_BudgetExceededEventAndAlert ==
    \A t \in UpdateFrames :
        LET f == calls[t]
            c == f.campaign_id
            S == f.updated_metrics.spend
            B == PubsOfType(f, "campaign.budget_exceeded")
            A == PubsOfType(f, "campaign.performance_alert")
        IN  (c \in DOMAIN budget_limits /\ S > budget_limits[c])
            => LET L == budget_limits[c]
               IN  /\ Cardinality(B) <= 1 /\ Cardinality(A) <= 1
                   /\ Returned(f, 1) => Cardinality(B) = 1
                   /\ \A i \in B :
                         LET e == f.pubs[i]
                         IN  /\ e.campaign_id = c
                             /\ e.budget_limit = L
                             /\ e.current_spend = S
                             /\ e.percentage_exceeded[2] > 0
                             /\ e.percentage_exceeded[1] * L =
                                    (S - L) * 100 * e.percentage_exceeded[2]
                             /\ (L = 1000 /\ S = 1200)
                                    => e.percentage_exceeded = <<20, 1>>
                   /\ (Returned(f, 1) /\ Returned(f, 2)) => Cardinality(A) = 1
                   /\ \A i \in A :
                         /\ f.pubs[i].alert.campaign_id = c
                         /\ f.pubs[i].alert.alert_type = "budget_exceeded"
                         /\ f.pubs[i].alert.severity = "high"

\* the update of the test: limit 1000, spend set to 1200, run to its end with
\* the three publish calls metrics-updated, budget-exceeded (20 %), alert
C6_Witness ==
    \E t \in UpdateFrames :
        /\ RanToEnd(calls[t])
        /\ calls[t].campaign_id \in DOMAIN budget_limits
        /\ budget_limits[calls[t].campaign_id] = 1000
        /\ calls[t].updated_metrics.spend = 1200
        /\ Len(calls[t].pubs) = 3
        /\ calls[t].pubs[2].percentage_exceeded = <<20, 1>>
        /\ calls[t].pubs[3].alert.severity = "high"

\* the thresholds of the claim: low and high bound per metric (0: none)
ClaimLow(metric_name) ==
    IF metric_name = "roas" THEN 2 ELSE IF metric_name = "ctr" THEN 1 ELSE 0

ClaimHigh(metric_name) ==
    IF metric_name = "cpc" THEN 2 ELSE 5

ThresholdMetrics == {"roas", "ctr", "cpc"}

\* p >= lo and c < lo, for rationals p, c and the integer lo
ClaimBelow(metric_name, p, c) ==
    /\ ClaimLow(metric_name) # 0
    /\ p[1] >= ClaimLow(metric_name) * p[2]
    /\ c[1] < ClaimLow(metric_name) * c[2]

\* p <= hi and c > hi
ClaimAbove(metric_name, p, c) ==
    /\ p[1] <= ClaimHigh(metric_name) * p[2]
    /\ c[1] > ClaimHigh(metric_name) * c[2]

\* the update of frame f made a threshold publish for this metric and type
HasThresholdEvent(f, metric_name, threshold_type) ==
    \E i \in PubsOfType(f, "campaign.performance_threshold") :
        /\ f.pubs[i].metric_name = metric_name
        /\ f.pubs[i].threshold_type = threshold_type

C8_FallBelowHighPublishesBelow ==
    \A t \in UpdateFrames :
        LET f == calls[t]
        IN  (/\ RanToEnd(f)
             /\ f.current_metrics.ctr = <<6, 1>> /\ f.updated_metrics.ctr = <<4, 1>>
             /\ f.current_metrics.roas = <<6, 1>> /\ f.updated_metrics.roas = <<4, 1>>)
            => \A m \in {"ctr", "roas"} :
                   \E i \in PubsOfType(f, "campaign.performance_threshold") :
                       /\ f.pubs[i].metric_name = m
                       /\ f.pubs[i].threshold_type = "below"
                       /\ f.pubs[i].threshold_value = <<5, 1>>

\* C9: an update before which a metric was already below its low threshold
\* and after which it still is makes no threshold publish for that metric, and
\* likewise above the high threshold; and a threshold event published by an
\* earlier call does not suppress a later one: an update that ran to its end
\* and took the metric across the threshold again made the publish again.
C9_EdgeTriggered ==
    \A t \in UpdateFrames :
        LET f == calls[t]
        IN  \A m \in ThresholdMetrics :
                LET p == f.current_metrics[m]
                    c == f.updated_metrics[m]
                IN  /\ (/\ ClaimLow(m) # 0
                        /\ p[1] < ClaimLow(m) * p[2]
                        /\ c[1] < ClaimLow(m) * c[2])
                       => /\ ~HasThresholdEvent(f, m, "below")
                          /\ ~HasThresholdEvent(f, m, "above")
                    /\ (/\ p[1] > ClaimHigh(m) * p[2]
                        /\ c[1] > ClaimHigh(m) * c[2])
                       => /\ ~HasThresholdEvent(f, m, "below")
                          /\ ~HasThresholdEvent(f, m, "above")
                    /\ (/\ RanToEnd(f)
                        /\ <<f.campaign_id, m, "below">> \in history
                        /\ ClaimBelow(m, p, c))
                       => HasThresholdEvent(f, m, "below")
                    /\ (/\ RanToEnd(f)
                        /\ <<f.campaign_id, m, "above">> \in history
                        /\ ClaimAbove(m, p, c))
                       => HasThresholdEvent(f, m, "above")

\* roas fell below 2 again after an earlier call had published its fall, and
\* the update published "below" for roas again
C9_Witness ==
    \E t \in UpdateFrames :
        /\ RanToEnd(calls[t])
        /\ <<calls[t].campaign_id, "roas", "below">> \in history
        /\ HasThresholdEvent(calls[t], "roas", "below")

\* C10: when a publish call of an update has returned False or raised, the
\* entry the update wrote is the one get_campaign_metrics returns, during the
\* rest of the update and after it has returned or raised.
C10_PublishFailureKeepsRegistryWrite ==
    \A t \in UpdateFrames :
        (\E i \in 1..Len(calls[t].results) : calls[t].results[i] # "true")
        => get_campaign_metrics(calls[t].campaign_id)
               = Some(calls[t].updated_metrics)

\* an update that changed the entry had its first publish return False and
\* its second raise
C10_Witness ==
    \E t \in UpdateFrames :
        /\ calls[t].pc = "done"
        /\ calls[t].raised
        /\ Len(calls[t].results) = 2
        /\ calls[t].results[1] = "false"
        /\ calls[t].updated_metrics # calls[t].current_metrics
        /\ get_campaign_metrics(calls[t].campaign_id)
               = Some(calls[t].updated_metrics)

----------------------------------------------------------------------------
(* Failures of the transport *)

\* C11: no update_campaign_metrics call ends by raising to its caller,
\* whatever its publish calls did (returned True, returned False, or raised).
C11_UpdateNeverRaises ==
    \A t \in UpdateFrames : ~calls[t].raised

\* the alert publishes the update of frame f has to attempt: the budget
\* publish when the new spend is over the stored limit, and the threshold
\* publish of every threshold its metrics crossed
AlertsAttempted(f) ==
    /\ BudgetExceeded(f.campaign_id, f.updated_metrics)
           => PubsOfType(f, "campaign.budget_exceeded") # {}
    /\ \A s \in ThresholdSites :
           ThresholdSiteReached(f, s)
               => HasThresholdEvent(f, SiteMetric(s),
                                    IF SiteIsLow(s) THEN "below" ELSE "above")

\* C12: an update whose metrics-updated publish failed (returned False or
\* raised) and whose call is over has still attempted the budget publish,
\* when the spend is over the limit, and the publish of every threshold
\* crossed.
C12_FailedMetricsPublishDoesNotBlockAlerts ==
    \A t \in UpdateFrames :
        LET f == calls[t]
        IN  (/\ f.pc = "done"
             /\ Len(f.results) >= 1
             /\ f.results[1] # "true")
            => AlertsAttempted(f)

\* C13: no publish call of the transport ends by raising: each one that has
\* completed returned True or False.
C13_PublisherNeverRaises ==
    \A t \in Tasks :
        \A i \in 1..Len(calls[t].results) :
            calls[t].results[i] \in {"true", "false"}

\* C14: with updates of one campaign submitted one after the other, the
\* metrics-updated events handed to the transport are, in order, those of the
\* updates submitted: the k-th event published carries the spend of the k-th
\* update submitted, every update submitted has its event (none skipped) and
\* no position holds two events or an event without an update (none
\* duplicated).
C14_SequentialUpdatesPublishInOrder ==
    /\ LogCount("published") = LogCount("submitted")
    /\ \A h \in history :
           /\ h[2] \in 1..LogCount(h[1])
           /\ <<IF h[1] = "published" THEN "submitted" ELSE "published",
                h[2], h[3]>> \in history
    /\ \A g, h \in history : (g[1] = h[1] /\ g[2] = h[2]) => g = h

\* three updates submitted in turn, asking for spend 100, then 120, then none
\* (the spend stays 120): three events published in that order
C14_Witness ==
    /\ {<<"submitted", 1, 100>>, <<"submitted", 2, 120>>, <<"submitted", 3, 120>>,
        <<"published", 1, 100>>, <<"published", 2, 120>>, <<"published", 3, 120>>}
           \subseteq history
    /\ calls[1].pc = "idle"
    /\ active_campaigns["c1"].impressions = 1300

----------------------------------------------------------------------------
(* Concurrent calls *)

\* the update frames of two callers in flight at the same time
ConcurrentUpdates ==
    {p \in Callers \X Callers :
        /\ p[1] # p[2]
        /\ \A i \in 1..2 : /\ calls[p[i]].op = "update"
                             /\ calls[p[i]].pc = "publishing"}

\* C15: with update calls interleaving at their publish calls, every update
\* call of a registered campaign has made exactly one metrics-updated
\* publish, and in its event the campaign_id, the campaign_id of the embedded
\* metrics and the campaign_id of the entry the call read are the call's
\* campaign_id, and each raw counter is the one the call was given, or, when
\* it was given none, the one of the entry the call read under its own
\* campaign_id.
C15_ConcurrentUpdatesNoCrossContamination ==
    \A t \in Callers :
        LET f == calls[t]
            M == PubsOfType(f, "campaign.metrics_updated")
        IN  (f.op = "update" /\ f.pubs # << >>)
            => /\ Cardinality(M) = 1
               /\ f.current_metrics.campaign_id = f.campaign_id
               /\ \A i \in M :
                      /\ f.pubs[i].campaign_id = f.campaign_id
                      /\ f.pubs[i].metrics.campaign_id = f.campaign_id
                      /\ \A k \in RawKeys :
                             f.pubs[i].metrics[k] =
                                 DictGet(f.metrics_data, k, f.current_metrics[k])

\* updates of c1 and of c2 are suspended in their publish calls at the same
\* time, with different counters
C15_Witness ==
    \E p \in ConcurrentUpdates :
        /\ calls[p[1]].campaign_id = "c1"
        /\ calls[p[2]].campaign_id = "c2"
        /\ calls[p[1]].pubs[1].metrics.spend = 100
        /\ calls[p[2]].pubs[1].metrics.spend = 1200
        /\ active_campaigns_keys = <<"c1", "c2">>

\* C16: every update call begun on a registered campaign hands exactly one
\* metrics-updated event to the transport in the step that begins it,
\* whatever other calls are in flight on the same campaign, and changes no
\* other call; no later step of the call adds a metrics-updated publish or
\* takes one away, up to the return of the call.
C16_ConcurrentUpdatesAllPublished ==
    [][\A t \in Callers :
          /\ (/\ calls[t].pc = "idle"
              /\ calls'[t].op = "update"
              /\ calls'[t].campaign_id \in DOMAIN active_campaigns)
             => /\ Cardinality(PubsOfType(calls'[t], "campaign.metrics_updated")) = 1
                /\ calls'[t].pubs[1].metrics.spend =
                       DictGet(calls'[t].metrics_data, "spend",
                               active_campaigns[calls'[t].campaign_id].spend)
                /\ \A u \in Tasks \ {t} : calls'[u] = calls[u]
          /\ (calls[t].op = "update" /\ calls'[t].pc # "idle")
             => PubsOfType(calls'[t], "campaign.metrics_updated")
                    = PubsOfType(calls[t], "campaign.metrics_updated")]_vars

\* two updates of the same campaign are suspended in their publish calls at
\* the same time, one with spend 100 and one with spend 1200: two events
C16_Witness ==
    \E p \in ConcurrentUpdates :
        /\ calls[p[1]].campaign_id = calls[p[2]].campaign_id
        /\ calls[p[1]].pubs[1].event_type = "campaign.metrics_updated"
        /\ calls[p[2]].pubs[1].event_type = "campaign.metrics_updated"
        /\ calls[p[1]].pubs[1].metrics.spend = 100
        /\ calls[p[2]].pubs[1].metrics.spend = 1200

----------------------------------------------------------------------------
(* The lifecycle of the monitoring loop *)

TaskDone == monitoring.task \in {"finished", "cancelled"}

\* C17: whatever the order of the start_monitoring and stop_monitoring calls,
\* no step leaves more than one loop task that was created and is not done,
\* the task held in _monitoring_task is that task, and no step taken while a
\* loop task is not done creates another one.
C17_AtMostOneLoopTask ==
    [][/\ monitoring'.alive \in {0, 1}
       /\ monitoring'.alive = 1 <=> monitoring'.task = "pending"
       /\ monitoring.task = "pending"
              => monitoring'.alive <= monitoring.alive]_vars

\* start_monitoring has created a second task, after the first one ended,
\* while the stop_monitoring call that cancelled the first one has not yet
\* returned
C17_Witness ==
    /\ monitoring.task = "pending"
    /\ monitoring.pc = "created"
    /\ monitoring.alive = 1
    /\ monitoring.stop_waiting
    /\ monitoring.stop_ready
    /\ monitoring.ticks >= 1

\* C18: a stop_monitoring call suspends only when a loop task is not done,
\* and then has asked for its cancellation; it returns only after the task
\* it cancelled is done, and unless start_monitoring was called in between
\* no loop task is left when it returns; and every stop_monitoring call
\* that is suspended returns in the end, wherever the loop was suspended
\* when it was cancelled.
C18_StopReturnsAfterTaskDone ==
    /\ [][/\ (~monitoring.stop_waiting /\ monitoring'.stop_waiting)
              => /\ monitoring.task = "pending"
                 /\ monitoring'.cancel_requested
          /\ (monitoring.stop_waiting /\ ~monitoring'.stop_waiting)
              => /\ monitoring.stop_ready
                 /\ monitoring.cancelled_at # "none"
                        => (TaskDone /\ monitoring.alive = 0)]_vars
    /\ (monitoring.stop_waiting ~> ~monitoring.stop_waiting)

\* stop_monitoring has returned after it cancelled a loop that was suspended
\* in the 60 s sleep of the exception handler
C18_Witness ==
    /\ ~monitoring.stop_waiting
    /\ monitoring.task = "cancelled"
    /\ monitoring.cancelled_at = "sleep60"
    /\ monitoring.alive = 0
    /\ monitoring.backoffs >= 1

\* C19: whenever no loop task was created yet, or the one created is done
\* (cancelled by a stop_monitoring or ended otherwise), start_monitoring
\* creates a new loop task: it can be called, and its call leaves a task
\* that is not done and has not run yet.
C19_Restartable ==
    monitoring.task # "pending"
        => ENABLED (/\ start_monitoring
                    /\ monitoring'.task = "pending"
                    /\ monitoring'.pc = "created"
                    /\ monitoring'.alive = 1)

\* a loop task was stopped inside its first refresh, after it registered
\* the first demo campaign; the stop_monitoring call has returned,
\* start_monitoring created a new task, and that task is inside the second
\* refresh, updating that campaign
C19_Witness ==
    /\ monitoring.task = "pending"
    /\ monitoring.pc = "call"
    /\ monitoring.ticks = 2
    /\ monitoring.backoffs = 0
    /\ monitoring.cancelled_at = "none"
    /\ ~monitoring.stop_waiting
    /\ active_campaigns_keys = <<DemoCampaigns[1].campaign_id>>
    /\ calls[MonitorTask].op = "update"

\* C20: a loop task ends only in a step that delivers the CancelledError of
\* a cancellation that was requested; a pass of the loop that ends in the
\* except Exception handler leaves the task not done and in the 60 s sleep;
\* and the loop leaves the 60 s sleep only to begin another refresh or by
\* cancellation.
C20_ExceptionNeverEndsLoop ==
    [][/\ (monitoring.task = "pending" /\ monitoring'.task # "pending")
              => monitoring.cancel_requested
       /\ monitoring'.backoffs > monitoring.backoffs
              => /\ monitoring'.task = "pending"
                 /\ monitoring'.pc = "sleep60"
       /\ (monitoring.pc = "sleep60" /\ monitoring'.pc # "sleep60")
              => \/ /\ monitoring'.pc = "call"
                    /\ monitoring'.ticks = monitoring.ticks + 1
                    /\ monitoring'.task = "pending"
                 \/ /\ monitoring.cancel_requested
                    /\ monitoring'.task = "cancelled"]_vars

\* a publish call of the first refresh raised, the loop took the 60 s sleep
\* and is now inside its second refresh
C20_Witness ==
    /\ monitoring.task = "pending"
    /\ monitoring.pc = "call"
    /\ monitoring.backoffs = 1
    /\ monitoring.ticks = 2
    /\ monitoring.cancelled_at = "none"

\* C21: once a stop_monitoring call that cancelled the loop in one of its
\* sleeps between two refreshes has returned, the task it cancelled is not
\* done, or it is done in the cancelled state.
C21_StoppedInSleepIsCancelled ==
    (/\ ~monitoring.stop_waiting
     /\ monitoring.cancelled_at \in {"sleep30", "sleep60"})
        => monitoring.task \in {"pending", "cancelled"}

----------------------------------------------------------------------------
(* Registration, reads and health *)

\* C22: the step that begins a register_campaign call stores the zeroed
\* entry and makes one publish call, for a metrics-updated event with the
\* call's project_id and campaign_id whose metrics are the zeroed entry that
\* the registry holds at that moment; no later step of the call makes
\* another publish call.
C22_RegisterPublishesOnce ==
    [][\A t \in Tasks :
          /\ (calls[t].pc = "idle" /\ calls'[t].op = "register")
             => LET f == calls'[t]
                IN  /\ f.pc = "publishing"
                    /\ Len(f.pubs) = 1
                    /\ f.pubs[1].event_type = "campaign.metrics_updated"
                    /\ f.pubs[1].project_id = f.project_id
                    /\ f.pubs[1].campaign_id = f.campaign_id
                    /\ ZeroEntry(f.pubs[1].metrics)
                    /\ f.campaign_id \in DOMAIN active_campaigns'
                    /\ active_campaigns'[f.campaign_id] = f.pubs[1].metrics
          /\ (calls[t].op = "register" /\ calls'[t].op = "register")
             => calls'[t].pubs = calls[t].pubs]_vars

\* a register_campaign call that replaced an entry with roas 6 has returned
\* after its one publish call, which the transport refused
C22_Witness ==
    \E t \in Tasks :
        /\ calls[t].op = "register"
        /\ calls[t].pc = "done"
        /\ calls[t].current_metrics.roas = <<6, 1>>
        /\ calls[t].results = <<"false">>
        /\ Len(calls[t].pubs) = 1

\* C23: the reads write nothing: every get_all_campaign_metrics call made
\* since the last register or update returned the sequence of snapshots a
\* call would return now (so any two of them returned equal sequences), and
\* every get_campaign_metrics call made since then returned absent for an id
\* that is not in the registry now, and the entry the registry holds now for
\* an id that is.
C23_ReadsChangeNoState ==
    \A h \in history :
        /\ h[1] = "all" => h[3] = get_all_campaign_metrics
        /\ h[1] = "get" => h[4] = get_campaign_metrics(h[3])
        /\ (h[1] = "get" /\ IsNone(h[4])) => h[3] \notin DOMAIN active_campaigns

\* after an update of c1, get_campaign_metrics was called for c2, which is
\* not registered, and then get_all_campaign_metrics twice: absent, and twice
\* the same one snapshot
C23_Witness ==
    /\ <<"get", 1, "c2", None>> \in history
    /\ \E g, h \in history :
           /\ g[1] = "all" /\ g[2] = 2
           /\ h[1] = "all" /\ h[2] = 3
           /\ g[3] = h[3]
           /\ Len(h[3]) = 1
           /\ h[3][1].spend = 1200
    /\ DOMAIN active_campaigns = {"c1"}

\* C24: in every reachable state health_check reports service "healthy",
\* as active_campaigns the number of different campaign ids registered, and
\* monitoring_active "True" when a loop task was created and is not done and
\* "False" otherwise.
C24_HealthReportsState ==
    /\ health_check.service = "healthy"
    /\ health_check.active_campaigns =
           Str(Cardinality({active_campaigns_keys[i] :
                               i \in 1..Len(active_campaigns_keys)}))
    /\ health_check.monitoring_active =
           IF monitoring.alive = 1 THEN "True" ELSE "False"

\* the loop registered its three demo campaigns, a caller registered a
\* fourth campaign, and the loop was stopped: "4" campaigns, not active
C24_Witness ==
    /\ Len(active_campaigns_keys) = 4
    /\ TaskDone
    /\ health_check.active_campaigns = "4"
    /\ health_check.monitoring_active = "False"

\* C25: whatever the state of the transport's client, the transport status
\* health_check returns is the status the transport's own health_check
\* reports.
C25_TransportStatusDelegated ==
    \A client \in NatsClients :
        health_check.nats = nats_health_check(client).status

----------------------------------------------------------------------------
(* Failures and alerts over a sequence of updates *)

\* C26: every update call of the registered campaign, whatever the publish
\* calls of the calls before it returned, hands exactly one metrics-updated
\* event to the transport, the one with the spend that call asked for: after
\* updates whose publish returned False the next update still makes its
\* attempt, and no call sends the event of an earlier call again.
C26_NoLastingFailureState ==
    /\ \A e \in history : e.sent = <<e.asked>>
    /\ (calls[1].op = "update" /\ calls[1].pubs # << >>)
          => /\ calls[1].pubs[1].event_type = "campaign.metrics_updated"
             /\ calls[1].pubs[1].metrics.spend = calls[1].metrics_data.spend
             /\ Cardinality(PubsOfType(calls[1], "campaign.metrics_updated")) = 1

\* the publish of the first two updates returned False, the third update
\* made its own publish and the transport accepted it
C26_Witness ==
    \E e1, e2, e3 \in history :
        /\ e1.n = 1 /\ e1.result = "false" /\ e1.sent = <<100>>
        /\ e2.n = 2 /\ e2.result = "false" /\ e2.sent = <<110>>
        /\ e3.n = 3 /\ e3.result = "true" /\ e3.sent = <<120>>

\* the event types of an update contain the budget pair: a budget-exceeded
\* event directly followed by a performance alert
HasBudgetPair(kinds) ==
    \E i \in 1..(Len(kinds) - 1) :
        /\ kinds[i] = "campaign.budget_exceeded"
        /\ kinds[i + 1] = "campaign.performance_alert"

\* C27: an update publishes a budget-exceeded event only if a limit is stored
\* and its resulting spend is strictly greater than the limit, and at most
\* once; every update none of whose publish calls raised publishes the budget
\* pair (budget-exceeded, then performance alert) exactly when that is so,
\* whether or not the update before it already published the pair.
C27_BudgetPairIffOverLimit ==
    \A e \in history :
        /\ (\E i \in 1..Len(e.kinds) : e.kinds[i] = "campaign.budget_exceeded")
              => e.over
        /\ Cardinality({i \in 1..Len(e.kinds) :
                            e.kinds[i] = "campaign.budget_exceeded"}) <= 1
        /\ ~e.raised => (HasBudgetPair(e.kinds) <=> e.over)

\* limit 100: the first update leaves spend at the limit and publishes no
\* pair, the second and the third each leave spend above it and each
\* publishes the pair
C27_Witness ==
    /\ "c1" \in DOMAIN budget_limits /\ budget_limits["c1"] = 100
    /\ \E e1, e2, e3 \in history :
           /\ e1.n = 1 /\ e1.asked = 100 /\ ~e1.raised /\ ~HasBudgetPair(e1.kinds)
           /\ e2.n = 2 /\ e2.asked = 110 /\ ~e2.raised /\ HasBudgetPair(e2.kinds)
           /\ e3.n = 3 /\ e3.asked = 120 /\ ~e3.raised /\ HasBudgetPair(e3.kinds)

\* the place of an event in the order of one update: metrics-updated,
\* budget-exceeded, performance alert, then the threshold events of roas,
\* ctr and cpc
EventRank(e) ==
    IF e.event_type = "campaign.metrics_updated" THEN 1
    ELSE IF e.event_type = "campaign.budget_exceeded" THEN 2
    ELSE IF e.event_type = "campaign.performance_alert" THEN 3
    ELSE IF e.metric_name = "roas" THEN 4
    ELSE IF e.metric_name = "ctr" THEN 5
    ELSE 6

\* C28: when an update hands its first event to the transport the registry
\* already holds the entry the update computed; that first event is the
\* metrics-updated event, and the events that follow come in the order
\* budget-exceeded, performance alert, roas threshold, ctr threshold, cpc
\* threshold.
C28_StepsOfAnUpdateInOrder ==
    \A t \in UpdateFrames :
        LET f == calls[t]
        IN  /\ f.campaign_id \in DOMAIN active_campaigns
            /\ active_campaigns[f.campaign_id] = f.updated_metrics
            /\ EventRank(f.pubs[1]) = 1
            /\ \A i \in 1..(Len(f.pubs) - 1) :
                   EventRank(f.pubs[i]) < EventRank(f.pubs[i + 1])

\* an update that published the metrics-updated event, the budget pair and
\* threshold events of two metrics
C28_Witness ==
    \E t \in UpdateFrames :
        /\ RanToEnd(calls[t])
        /\ Len(calls[t].pubs) >= 5
        /\ EventRank(calls[t].pubs[2]) = 2
        /\ EventRank(calls[t].pubs[3]) = 3
        /\ EventRank(calls[t].pubs[4]) # EventRank(calls[t].pubs[5])

\* the threshold publishes of frame f for one metric
ThresholdPubsOf(f, metric_name) ==
    {i \in PubsOfType(f, "campaign.performance_threshold") :
        f.pubs[i].metric_name = metric_name}

\* C29: one update makes at most one threshold publish per metric, so never a
\* "below" and an "above" event for the same metric, and at most three
\* threshold publishes in all.
C29_OneThresholdEventPerMetric ==
    \A t \in UpdateFrames :
        /\ \A metric_name \in {"roas", "ctr", "cpc", "cpm"} :
               Cardinality(ThresholdPubsOf(calls[t], metric_name)) <= 1
        /\ Cardinality(PubsOfType(calls[t], "campaign.performance_threshold")) <= 3

\* an update that published a threshold event for each of roas, ctr and cpc
C29_Witness ==
    \E t \in UpdateFrames :
        /\ RanToEnd(calls[t])
        /\ \A metric_name \in {"roas", "ctr", "cpc"} :
               Cardinality(ThresholdPubsOf(calls[t], metric_name)) = 1

----------------------------------------------------------------------------
(* Updates of one campaign by several callers *)

\* C30: an update is one atomic step with respect to the other updates of
\* its campaign: while an update call is between its read of the stored
\* entry and the end of its alert evaluation, suspended in one of its publish
\* calls, no other update call of the same campaign has read or written the
\* registry or issued a publish, so no two update calls of one campaign are
\* ever in flight together.
C30_UpdateAtomicPerCampaign ==
    \A p \in ConcurrentUpdates :
        calls[p[1]].campaign_id # calls[p[2]].campaign_id

\* task t begins an update call of a registered campaign in this step
BeginsUpdate(t) ==
    /\ calls[t].pc = "idle"
    /\ calls'[t].op = "update"
    /\ calls'[t].pubs # << >>

\* C31: with update and register calls of several callers interleaving, the
\* entry an update call merges over and hands to its alert evaluation is the
\* entry its own write replaces: in the step in which the call reads and
\* writes, the entry it read is the one the registry held, the registry then
\* holds the merge of that entry with the call's metrics_data, and the call
\* keeps the entry it read until it returns.
C31_PreviousIsTheReplacedEntry ==
    [][\A t \in Tasks :
          /\ BeginsUpdate(t) =>
                LET c == calls'[t].campaign_id
                IN  /\ calls'[t].current_metrics = active_campaigns[c]
                    /\ active_campaigns'[c] =
                           UpdatedMetrics(active_campaigns[c], calls'[t].metrics_data)
                    /\ calls'[t].updated_metrics = active_campaigns'[c]
          /\ (calls[t].op = "update" /\ calls'[t].op = "update")
                => calls'[t].current_metrics = calls[t].current_metrics]_vars

\* two update calls of one campaign in flight together, the second having
\* read the entry the first one wrote
C31_Witness ==
    \E p \in ConcurrentUpdates :
        /\ calls[p[1]].campaign_id = calls[p[2]].campaign_id
        /\ calls[p[1]].updated_metrics # calls[p[1]].current_metrics
        /\ calls[p[2]].current_metrics = calls[p[1]].updated_metrics
        /\ calls[p[2]].updated_metrics # calls[p[2]].current_metrics

----------------------------------------------------------------------------
(* The refresh of the monitoring loop *)

\* C32: a refresh of the loop issues one update for every campaign in the
\* registry, also when a register_campaign call for a new campaign id runs
\* while the refresh is suspended in a publish: in the step in which the loop
\* leaves its last call of a refresh for a sleep, the number of updates the
\* refresh has issued is the number of campaigns in the registry.
C32_RefreshUpdatesEveryCampaign ==
    [][(/\ monitoring.pc = "call"
        /\ monitoring'.pc \in {"sleep30", "sleep60"})
          => monitoring.iter_pos = Len(active_campaigns_keys)]_vars

\* C33: from the moment the cancellation of the loop task is requested, and
\* after the loop has been resumed with its CancelledError, the loop makes no
\* publish call and writes no entry: the call it was suspended in is
\* abandoned where it is, no call for the next campaign is begun, and the
\* registry changes only by a register call of the API caller.
C33_NoWorkAfterCancellation ==
    [][(monitoring.cancel_requested \/ TaskDone)
          => /\ calls'[MonitorTask] \in {calls[MonitorTask], IdleFrame}
             /\ active_campaigns' # active_campaigns
                   => \E t \in Callers : /\ calls[t].pc = "idle"
                                         /\ calls'[t].op = "register"]_vars

\* the loop was cancelled inside a call of its refresh, after it had updated
\* the first demo campaign and before it updated the last one
C33_Witness ==
    /\ monitoring.task = "finished"
    /\ monitoring.cancelled_at = "call"
    /\ calls[MonitorTask] = IdleFrame
    /\ DemoCampaigns[3].campaign_id \in DOMAIN active_campaigns
    /\ active_campaigns[DemoCampaigns[1].campaign_id].impressions > 0
    /\ active_campaigns[DemoCampaigns[3].campaign_id].impressions = 0

----------------------------------------------------------------------------
(* What an update leaves alone *)

\* task t, an API caller or the loop, begins an update call of a registered
\* campaign in this step
StartsUpdate(t) ==
    /\ calls'[t] # calls[t]
    /\ calls'[t].op = "update"
    /\ calls'[t].pubs # << >>
    /\ calls'[t].results = << >>

\* C34: the step in which an update call of campaign c reads and writes
\* changes, of the registry, the budget limits and the thresholds, only c's
\* entry, and keeps that entry's campaign_id, campaign_name and platform;
\* the later steps of an update call (its publish calls returning, the call
\* returning or raising) change none of them; and no step of any operation
\* removes a key from the registry or changes the thresholds.
C34_UpdateChangesOnlyItsEntry ==
    [][/\ \A t \in Tasks :
             /\ StartsUpdate(t) =>
                   LET c == calls'[t].campaign_id
                   IN  /\ DOMAIN active_campaigns' = DOMAIN active_campaigns
                       /\ \A o \in DOMAIN active_campaigns \ {c} :
                              active_campaigns'[o] = active_campaigns[o]
                       /\ active_campaigns'[c].campaign_id = c
                       /\ active_campaigns[c].campaign_id = c
                       /\ active_campaigns'[c].campaign_name
                              = active_campaigns[c].campaign_name
                       /\ active_campaigns'[c].platform = active_campaigns[c].platform
                       /\ active_campaigns_keys' = active_campaigns_keys
                       /\ budget_limits' = budget_limits
             /\ (calls[t].op = "update" /\ calls'[t] # calls[t] /\ ~StartsUpdate(t))
                   => /\ active_campaigns' = active_campaigns
                      /\ active_campaigns_keys' = active_campaigns_keys
                      /\ budget_limits' = budget_limits
       /\ DOMAIN active_campaigns \subseteq DOMAIN active_campaigns'
       /\ performance_thresholds' = performance_thresholds]_vars

\* an update call of an API caller is in flight on a campaign registered with
\* a name, a platform and a budget limit, it has changed the campaign's entry,
\* and the registry holds other campaigns
C34_Witness ==
    \E t \in Callers :
        LET c == calls[t].campaign_id
        IN  /\ calls[t].op = "update"
            /\ calls[t].pc = "publishing"
            /\ calls[t].updated_metrics # calls[t].current_metrics
            /\ active_campaigns[c] = calls[t].updated_metrics
            /\ active_campaigns[c].campaign_name = "Spring"
            /\ active_campaigns[c].platform = "google_ads"
            /\ c \in DOMAIN budget_limits
            /\ Len(active_campaigns_keys) >= 2

----------------------------------------------------------------------------
(* Start during a stop *)

\* stop_monitoring has requested the cancellation of the loop task and the
\* task has not been resumed with its CancelledError yet
Cancelling == monitoring.task = "pending" /\ monitoring.cancel_requested

\* C35: while the loop task is being cancelled, start_monitoring changes
\* nothing, and no step creates a task: the task stays the one being
\* cancelled until the step that ends it, so the stop_monitoring call that
\* awaits it returns with the task done although a start was called after it.
C35_StartDuringStopSpawnsNothing ==
    [][Cancelling
          => /\ ~ENABLED (start_monitoring /\ monitoring' # monitoring)
             /\ monitoring'.alive <= monitoring.alive
             /\ \/ /\ monitoring'.task = "pending"
                   /\ monitoring'.cancel_requested
                   /\ monitoring'.pc = monitoring.pc
                \/ /\ monitoring'.task \in {"finished", "cancelled"}
                   /\ monitoring'.alive = 0]_vars

\* a stop_monitoring call waits for the loop task it cancelled inside a
\* refresh, and the task has not been resumed yet
C35_Witness ==
    /\ Cancelling
    /\ monitoring.stop_waiting
    /\ ~monitoring.stop_ready
    /\ monitoring.pc = "call"
    /\ monitoring.alive = 1

----------------------------------------------------------------------------
(* The project of an event *)

\* the project_id campaign_id was registered under: the API callers register
\* c1 and c2, always under "p1", and the loop registers its demo campaigns
\* under its demo project id; the service does not store it
RegisteredUnder(campaign_id) ==
    IF campaign_id \in CampaignIds THEN "p1" ELSE DemoProjectId

\* C36: every event a register or update call hands to the transport,
\* whether the call is made by an API caller or by a refresh of the loop,
\* carries the project_id its campaign was registered under.
C36_EventsCarryRegisteredProject ==
    \A t \in Tasks :
        \A i \in 1..Len(calls[t].pubs) :
            calls[t].pubs[i].project_id = RegisteredUnder(calls[t].campaign_id)

----------------------------------------------------------------------------
(* Campaigns that start below the low threshold *)

\* C37: an update makes a "below" publish for roas or ctr only if the stored
\* value of that metric has been at or above the low threshold at some time
\* since the campaign was last registered: registration stores 0, so a
\* campaign whose metric stays below the low threshold from its first update
\* on gets no "below" event for it.
C37_NoBelowEventWithoutEarlierHigh ==
    \A t \in UpdateFrames :
        \A metric_name \in LowMetrics :
            HasThresholdEvent(calls[t], metric_name, "below")
                => metric_name \in history

\* the campaign's second update since its registration has run to its end:
\* roas was below 2 before it and is below 2 after it, never having been at
\* or above 2, and the update published no "below" event for roas
C37_Witness ==
    \E t \in UpdateFrames :
        /\ RanToEnd(calls[t])
        /\ "roas" \notin history
        /\ calls[t].current_metrics.spend > 0
        /\ calls[t].current_metrics.roas = <<1, 1>>
        /\ calls[t].updated_metrics.roas = <<1, 2>>
        /\ ~HasThresholdEvent(calls[t], "roas", "below")

----------------------------------------------------------------------------
(* Budget limits across registrations *)

\* a register call begins in this step
StartsRegister(t) == calls[t].pc = "idle" /\ calls'[t].op = "register"

\* C38: a register call stores the zeroed entry for its campaign; when it is
\* given no budget limit it leaves the budget limits as they are, so a limit
\* stored by an earlier registration stays, and when it is given a limit
\* (other than 0) that limit replaces the stored one; and every update whose
\* metrics-updated publish returned and whose spend is above the stored limit
\* has made a budget-exceeded publish with that limit.
C38_ReRegisterKeepsOrReplacesLimit ==
    [][/\ StartsRegister(1) =>
             /\ ZeroEntry(active_campaigns'["c1"])
             /\ <<"last", None>> \in history' => budget_limits' = budget_limits
             /\ \A b \in BudgetInputs \ {None, Some(0)} :
                    <<"last", b>> \in history'
                        => budget_limits' = DictSet(budget_limits, "c1", b[1])
       /\ \A t \in UpdateFrames :
             (/\ Returned(calls[t], 1)
              /\ BudgetExceeded(calls[t].campaign_id, calls[t].updated_metrics))
                => \E i \in PubsOfType(calls[t], "campaign.budget_exceeded") :
                       calls[t].pubs[i].budget_limit
                           = budget_limits[calls[t].campaign_id]]_vars

\* the campaign was registered with limit 150, then registered again without
\* a limit, and an update to spend 200 after that published a budget-exceeded
\* event with limit 150
C38_Witness ==
    /\ <<"ever", Some(150)>> \in history
    /\ <<"last", None>> \in history
    /\ Cardinality(history) = 3
    /\ \E t \in UpdateFrames :
           /\ RanToEnd(calls[t])
           /\ calls[t].current_metrics.spend = 0
           /\ calls[t].updated_metrics.spend = 200
           /\ \E i \in PubsOfType(calls[t], "campaign.budget_exceeded") :
                  calls[t].pubs[i].budget_limit = 150

\* C39: every stored budget limit is the limit of a campaign in the registry
\* and is not 0; a campaign whose register calls were all given the limit 0
\* has no stored limit; and every budget-exceeded event carries a limit other
\* than 0 and a percentage computed with it.
C39_StoredLimitsRegisteredAndNonZero ==
    /\ DOMAIN budget_limits \subseteq DOMAIN active_campaigns
    /\ \A c \in DOMAIN budget_limits : budget_limits[c] # 0
    /\ {e \in history : e[1] = "ever"} = {<<"ever", Some(0)>>}
          => /\ "c1" \in DOMAIN active_campaigns
             /\ "c1" \notin DOMAIN budget_limits
    /\ \A t \in UpdateFrames :
          \A i \in PubsOfType(calls[t], "campaign.budget_exceeded") :
              LET e == calls[t].pubs[i]
              IN  /\ e.budget_limit # 0
                  /\ e.campaign_id \in DOMAIN budget_limits
                  /\ e.percentage_exceeded[2] > 0
                  /\ e.percentage_exceeded[1] * e.budget_limit
                         = (e.current_spend - e.budget_limit) * 100
                               * e.percentage_exceeded[2]

\* the campaign was registered with budget_limit 0 only, and an update that
\* set its spend to 1200 ran to its end with the metrics-updated event as its
\* only event
C39_Witness ==
    /\ {e \in history : e[1] = "ever"} = {<<"ever", Some(0)>>}
    /\ \E t \in UpdateFrames :
           /\ RanToEnd(calls[t])
           /\ calls[t].updated_metrics.spend = 1200
           /\ Len(calls[t].pubs) = 1

====
